---------------------------- MODULE Spec2Model ----------------------------
(***************************************************************************)
(* Annotation alignment and reliability metrics of the emotion-labelling   *)
(* scripts under src/data_processing.  Every script is a batch job: it     *)
(* loads the three annotators' JSON label files, intersects files and      *)
(* samples, builds rating rows and applies a closed-form statistic.        *)
(*                                                                         *)
(* The module holds one specification per script stage.  The stages share  *)
(* the control variables pc and raised; every other variable belongs to    *)
(* one stage and stays at its idle value in the other specifications.      *)
(*                                                                         *)
(*   SpecFiles    load_annotations (caculate_cronbach_alpha.py)            *)
(*   SpecSamples  load_annotations / count_consistent_data /               *)
(*                print_consistency_summary (count_consistent_data.py)     *)
(*   SpecCells    find_inconsistent_data, one sample                       *)
(*                (extract_inconsistent_data.py)                           *)
(*   SpecEmotion  the null rule of extract_emotion_labels and              *)
(*                load_discrete_emotions, one annotator's list             *)
(*   SpecLabels   extract_emotion_labels (calculate_emotion_kappa.py)      *)
(*   SpecMatrix   extract_va_values (caculate_va_value.py), run twice      *)
(*   SpecAlpha    calculate_cronbachs_alpha (caculate_va_value.py)         *)
(*   SpecAgreement  main / calculate_agreement                             *)
(*                  (calculate_fleiss_kappa.py)                            *)
(*   SpecKappa      main, from the labels table on                         *)
(*                  (calculate_emotion_kappa.py)                           *)
(*   SpecKendall    calculate_kendall_w_scipy (calculate_kendall_w.py)     *)
(*   SpecPvalues    calculate_pvalues (calculate_correlation.py)           *)
(*   SpecPermute    alpha, Fleiss' kappa and Kendall's W of a table and    *)
(*                  of the table with two rows exchanged                   *)
(*   SpecDiscrete   analyze_discrete_emotion_data, one item                *)
(*                  (discrete_emotion_distribution.py)                     *)
(*   SpecDisagree   analyze_disagreements                                  *)
(*                  (emotion_score_disagreement_analyzer.py)               *)
(*   SpecPartition  find_inconsistent_data and count_consistent_data       *)
(*                  (extract_inconsistent_data.py,                         *)
(*                  count_consistent_data.py)                              *)
(*   SpecExtract    process_json_v_value (extract_emotion_audio.py)        *)
(*   SpecFilter     filter_patient_data in process_common_json_files       *)
(*                  (processing_json.py)                                   *)
(*   SpecCommon     get_common_files and find_common_files                 *)
(*                  (processing_json.py and three analysis scripts)        *)
(***************************************************************************)
EXTENDS Integers, Sequences, FiniteSets, TLC

VARIABLES
    pc,                   \* position of the running script
    raised,               \* the exception that ended the run, or "none"
    \* ---- SpecFiles
    listing,              \* os.listdir of each annotator directory
    scan_i,               \* annotators whose directory has been listed
    common_files,         \* load_annotations: common_files
    all_data_keys,        \* load_annotations: keys of all_data so far
    \* ---- SpecSamples
    disk,                 \* the file's state under each annotator directory
    file_data,            \* load_annotations: file_data
    processed_data,       \* count_consistent_data: processed_data
    fold_i,               \* annotators folded into common_audio_files
    common_audio_files,   \* count_consistent_data: common_audio_files
    todo,                 \* samples of common_audio_files not yet visited
    counts,               \* total_samples and the three consistency counters
    consistent_data,      \* count_consistent_data: consistent_data
    printed,              \* print_consistency_summary: the percentages
    \* ---- SpecCells
    sample_items,         \* processed_data[annotator][audio_file], one sample
    v_values,             \* find_inconsistent_data: v_values
    a_values,             \* find_inconsistent_data: a_values
    inconsistent_data,    \* find_inconsistent_data: inconsistent_data
    \* ---- SpecEmotion
    person_data,          \* data[person]: one annotator's list of records
    emotions,             \* load_discrete_emotions: emotions
    person_labels,        \* extract_emotion_labels: labels[.][person]
    \* ---- SpecLabels
    data,                 \* extract_emotion_labels: data
    all_audio_files,      \* extract_emotion_labels: all_audio_files
    update_i,             \* persons whose ids were added to all_audio_files
    labels,               \* extract_emotion_labels: labels
    \* ---- SpecMatrix
    all_data,             \* extract_va_values: all_data (ids each file holds)
    score,                \* the v_value recorded for each sample id
    run,                  \* 1 or 2: which run of the script is executing
    files_left,           \* files of all_data not yet iterated in this run
    cur_file,             \* filename: the file being processed, or NoFile
    samples_left,         \* common_audio_files not yet iterated for filename
    valence_data,         \* extract_va_values: valence_data
    arousal_data,         \* extract_va_values: arousal_data
    row_order,            \* insertion order of the keys of valence_data
    matrices,             \* the matrices returned by the finished runs
    \* ---- SpecAlpha
    data_matrix,          \* calculate_cronbachs_alpha: data_matrix
    alpha,                \* calculate_cronbachs_alpha: the returned value
    \* ---- SpecAgreement
    all_annotations,      \* main: all_annotations (the v_values of each audio)
    common_audios,        \* main: common_audios
    table,                \* calculate_agreement: table
    kappa,                \* calculate_agreement: kappa, the result of fleiss_kappa
    pair_kappas,          \* calculate_agreement: what each rater pair's iteration computed
    percent_agreement,    \* calculate_agreement: percent_agreement
    value_agreement,      \* calculate_agreement: count / total of each value
    \* ---- SpecKappa
    emotion_labels,       \* main: labels, the rows of the labels table in dict order
    ratings_matrix,       \* main: ratings_matrix
    emotion_mapping,      \* main: emotion_mapping
    fleiss,               \* main: kappa
    separate_kappas,      \* main: all_kappa and agreed_kappa
    agreement,            \* main: agreement
    interpretation,       \* main: the bands written to the reports
    \* ---- SpecKendall
    w_matrix,             \* calculate_kendall_w_scipy: data_matrix
    kendall,              \* calculate_kendall_w_scipy: the returned W and chi_square
    \* ---- SpecPvalues
    rating_df,            \* calculate_pvalues: df, the rows of the rating table
    pvalues,              \* calculate_pvalues: pvalues
    \* ---- SpecPermute
    statistic,            \* which statistic the run computes
    sample_rows,          \* the rating matrix or labels table, row by row
    permutation,          \* an exchange of two rows
    outcomes,             \* the statistic of the rows as given and as reordered
    \* ---- SpecDiscrete
    emotion_item,         \* analyze_discrete_emotion_data: item
    emotion_counts,       \* data_stats[annotator]['discrete_emotion']
    \* ---- SpecDisagree
    common_json,          \* analyze_disagreements: common_files not yet iterated
    json_name,            \* filename of the last iteration, or NoFile
    annotator_data,       \* annotator_data of the last iteration
    a_value_disagreements,\* analyze_disagreements: a_value_disagreements
    v_value_disagreements,\* analyze_disagreements: v_value_disagreements
    a_value_count,        \* analyze_disagreements: a_value_count
    v_value_count,        \* analyze_disagreements: v_value_count
    total_samples,        \* analyze_disagreements: total_samples
    json_files,           \* what the three annotators' copies of filename hold
    \* ---- SpecPartition
    part_data,            \* all_data[filename]: the list of each annotator for one file
    inconsistent_found,   \* find_inconsistent_data: inconsistent_data
    found_total,          \* find_inconsistent_data: total_samples
    consistency,          \* count_consistent_data: the returned dict
    \* ---- SpecExtract
    label_items,          \* process_json_v_value: annotations
    wav_files,            \* the audio files under wav_path for this recording
    extract_wav,          \* the files under the output directory: copied now, or there before
    item_i,               \* the number of items the loop has taken
    \* ---- SpecFilter
    inputs_left,          \* process_common_json_files: iterations still to run
    input_file,           \* what input_path holds in the last iteration
    output_file,          \* what output_path holds after the last iteration
    records_after,        \* the value filter_patient_data returned
    totals,               \* total_files, total_records_before, total_records_after
    \* ---- SpecCommon
    folders,              \* the annotator folders: whether each exists, and its file names
    subfolders_left,      \* get_common_files: subfolders[1:] not yet intersected
    json_common,          \* get_common_files: common_files
    common_found,         \* find_common_files of the distribution scripts: the returned set
    common_json_found     \* find_common_files of the analyzer: the names of the returned list

ctl == <<pc, raised>>
varsFiles == <<listing, scan_i, common_files, all_data_keys>>
varsSamples == <<disk, file_data, processed_data, fold_i, common_audio_files,
                 todo, counts, consistent_data, printed>>
varsCells == <<sample_items, v_values, a_values, inconsistent_data>>
varsEmotion == <<person_data, emotions, person_labels>>
varsLabels == <<data, all_audio_files, update_i, labels>>
varsMatrix == <<all_data, score, run, files_left, cur_file, samples_left,
                valence_data, arousal_data, row_order, matrices>>
varsAlpha == <<data_matrix, alpha>>
varsAgreement == <<all_annotations, common_audios, table, kappa, pair_kappas,
                   percent_agreement, value_agreement>>
varsKappa == <<emotion_labels, ratings_matrix, emotion_mapping, fleiss,
               separate_kappas, agreement, interpretation>>
varsKendall == <<w_matrix, kendall>>
varsPvalues == <<rating_df, pvalues>>
varsPermute == <<statistic, sample_rows, permutation, outcomes>>
varsDiscrete == <<emotion_item, emotion_counts>>
varsDisagree == <<common_json, json_name, annotator_data,
                  a_value_disagreements, v_value_disagreements, a_value_count,
                  v_value_count, total_samples, json_files>>
varsPartition == <<part_data, inconsistent_found, found_total, consistency>>
varsExtract == <<label_items, wav_files, extract_wav, item_i>>
varsFilter == <<inputs_left, input_file, output_file, records_after, totals>>
varsCommon == <<folders, subfolders_left, json_common, common_found,
                common_json_found>>
vars == <<ctl, varsFiles, varsSamples, varsCells, varsEmotion, varsLabels,
          varsMatrix, varsAlpha, varsAgreement, varsKappa, varsKendall,
          varsPvalues, varsPermute, varsDiscrete, varsDisagree, varsPartition,
          varsExtract, varsFilter, varsCommon>>

\* The variables each specification leaves alone.
restFiles == <<varsSamples, varsCells, varsEmotion, varsLabels, varsMatrix,
               varsAlpha, varsAgreement, varsKappa, varsKendall, varsPvalues,
               varsPermute, varsDiscrete, varsDisagree, varsPartition,
               varsExtract, varsFilter, varsCommon>>
restSamples == <<varsFiles, varsCells, varsEmotion, varsLabels, varsMatrix,
                 varsAlpha, varsAgreement, varsKappa, varsKendall,
                 varsPvalues, varsPermute, varsDiscrete, varsDisagree,
                 varsPartition, varsExtract, varsFilter, varsCommon>>
restCells == <<varsFiles, varsSamples, varsEmotion, varsLabels, varsMatrix,
               varsAlpha, varsAgreement, varsKappa, varsKendall, varsPvalues,
               varsPermute, varsDiscrete, varsDisagree, varsPartition,
               varsExtract, varsFilter, varsCommon>>
restEmotion == <<varsFiles, varsSamples, varsCells, varsLabels, varsMatrix,
                 varsAlpha, varsAgreement, varsKappa, varsKendall,
                 varsPvalues, varsPermute, varsDiscrete, varsDisagree,
                 varsPartition, varsExtract, varsFilter, varsCommon>>
restLabels == <<varsFiles, varsSamples, varsCells, varsEmotion, varsMatrix,
                varsAlpha, varsAgreement, varsKappa, varsKendall, varsPvalues,
                varsPermute, varsDiscrete, varsDisagree, varsPartition,
                varsExtract, varsFilter, varsCommon>>
restMatrix == <<varsFiles, varsSamples, varsCells, varsEmotion, varsLabels,
                varsAlpha, varsAgreement, varsKappa, varsKendall, varsPvalues,
                varsPermute, varsDiscrete, varsDisagree, varsPartition,
                varsExtract, varsFilter, varsCommon>>
restAlpha == <<varsFiles, varsSamples, varsCells, varsEmotion, varsLabels,
               varsMatrix, varsAgreement, varsKappa, varsKendall, varsPvalues,
               varsPermute, varsDiscrete, varsDisagree, varsPartition,
               varsExtract, varsFilter, varsCommon>>
restAgreement == <<varsFiles, varsSamples, varsCells, varsEmotion, varsLabels,
                   varsMatrix, varsAlpha, varsKappa, varsKendall, varsPvalues,
                   varsPermute, varsDiscrete, varsDisagree, varsPartition,
                   varsExtract, varsFilter, varsCommon>>
restKappa == <<varsFiles, varsSamples, varsCells, varsEmotion, varsLabels,
               varsMatrix, varsAlpha, varsAgreement, varsKendall, varsPvalues,
               varsPermute, varsDiscrete, varsDisagree, varsPartition,
               varsExtract, varsFilter, varsCommon>>
restKendall == <<varsFiles, varsSamples, varsCells, varsEmotion, varsLabels,
                 varsMatrix, varsAlpha, varsAgreement, varsKappa, varsPvalues,
                 varsPermute, varsDiscrete, varsDisagree, varsPartition,
                 varsExtract, varsFilter, varsCommon>>
restPvalues == <<varsFiles, varsSamples, varsCells, varsEmotion, varsLabels,
                 varsMatrix, varsAlpha, varsAgreement, varsKappa, varsKendall,
                 varsPermute, varsDiscrete, varsDisagree, varsPartition,
                 varsExtract, varsFilter, varsCommon>>
restPermute == <<varsFiles, varsSamples, varsCells, varsEmotion, varsLabels,
                 varsMatrix, varsAlpha, varsAgreement, varsKappa, varsKendall,
                 varsPvalues, varsDiscrete, varsDisagree, varsPartition,
                 varsExtract, varsFilter, varsCommon>>
restDiscrete == <<varsFiles, varsSamples, varsCells, varsEmotion, varsLabels,
                  varsMatrix, varsAlpha, varsAgreement, varsKappa,
                  varsKendall, varsPvalues, varsPermute, varsDisagree,
                  varsPartition, varsExtract, varsFilter, varsCommon>>
restDisagree == <<varsFiles, varsSamples, varsCells, varsEmotion, varsLabels,
                  varsMatrix, varsAlpha, varsAgreement, varsKappa,
                  varsKendall, varsPvalues, varsPermute, varsDiscrete,
                  varsPartition, varsExtract, varsFilter, varsCommon>>
restPartition == <<varsFiles, varsSamples, varsCells, varsEmotion, varsLabels,
                   varsMatrix, varsAlpha, varsAgreement, varsKappa,
                   varsKendall, varsPvalues, varsPermute, varsDiscrete,
                   varsDisagree, varsExtract, varsFilter, varsCommon>>
restExtract == <<varsFiles, varsSamples, varsCells, varsEmotion, varsLabels,
                 varsMatrix, varsAlpha, varsAgreement, varsKappa, varsKendall,
                 varsPvalues, varsPermute, varsDiscrete, varsDisagree,
                 varsPartition, varsFilter, varsCommon>>
restFilter == <<varsFiles, varsSamples, varsCells, varsEmotion, varsLabels,
                varsMatrix, varsAlpha, varsAgreement, varsKappa, varsKendall,
                varsPvalues, varsPermute, varsDiscrete, varsDisagree,
                varsPartition, varsExtract, varsCommon>>
restCommon == <<varsFiles, varsSamples, varsCells, varsEmotion, varsLabels,
                varsMatrix, varsAlpha, varsAgreement, varsKappa, varsKendall,
                varsPvalues, varsPermute, varsDiscrete, varsDisagree,
                varsPartition, varsExtract, varsFilter>>

\* The value a specification gives the variables of the other stages.
IdleFiles ==
    /\ listing = <<>>
    /\ scan_i = <<>>
    /\ common_files = <<>>
    /\ all_data_keys = <<>>
IdleSamples ==
    /\ disk = <<>>
    /\ file_data = <<>>
    /\ processed_data = <<>>
    /\ fold_i = <<>>
    /\ common_audio_files = <<>>
    /\ todo = <<>>
    /\ counts = <<>>
    /\ consistent_data = <<>>
    /\ printed = <<>>
IdleCells ==
    /\ sample_items = <<>>
    /\ v_values = <<>>
    /\ a_values = <<>>
    /\ inconsistent_data = <<>>
IdleEmotion ==
    /\ person_data = <<>>
    /\ emotions = <<>>
    /\ person_labels = <<>>
IdleLabels ==
    /\ data = <<>>
    /\ all_audio_files = <<>>
    /\ update_i = <<>>
    /\ labels = <<>>
IdleMatrix ==
    /\ all_data = <<>>
    /\ score = <<>>
    /\ run = <<>>
    /\ files_left = <<>>
    /\ cur_file = <<>>
    /\ samples_left = <<>>
    /\ valence_data = <<>>
    /\ arousal_data = <<>>
    /\ row_order = <<>>
    /\ matrices = <<>>
IdleAlpha ==
    /\ data_matrix = <<>>
    /\ alpha = <<>>
IdleAgreement ==
    /\ all_annotations = <<>>
    /\ common_audios = <<>>
    /\ table = <<>>
    /\ kappa = <<>>
    /\ pair_kappas = <<>>
    /\ percent_agreement = <<>>
    /\ value_agreement = <<>>
IdleKappa ==
    /\ emotion_labels = <<>>
    /\ ratings_matrix = <<>>
    /\ emotion_mapping = <<>>
    /\ fleiss = <<>>
    /\ separate_kappas = <<>>
    /\ agreement = <<>>
    /\ interpretation = <<>>
IdleKendall ==
    /\ w_matrix = <<>>
    /\ kendall = <<>>
IdlePvalues ==
    /\ rating_df = <<>>
    /\ pvalues = <<>>
IdlePermute ==
    /\ statistic = <<>>
    /\ sample_rows = <<>>
    /\ permutation = <<>>
    /\ outcomes = <<>>
IdleDiscrete ==
    /\ emotion_item = <<>>
    /\ emotion_counts = <<>>
IdleDisagree ==
    /\ common_json = <<>>
    /\ json_name = <<>>
    /\ annotator_data = <<>>
    /\ a_value_disagreements = <<>>
    /\ v_value_disagreements = <<>>
    /\ a_value_count = <<>>
    /\ v_value_count = <<>>
    /\ total_samples = <<>>
    /\ json_files = <<>>
IdlePartition ==
    /\ part_data = <<>>
    /\ inconsistent_found = <<>>
    /\ found_total = <<>>
    /\ consistency = <<>>
IdleExtract ==
    /\ label_items = <<>>
    /\ wav_files = <<>>
    /\ extract_wav = <<>>
    /\ item_i = <<>>
IdleFilter ==
    /\ inputs_left = <<>>
    /\ input_file = <<>>
    /\ output_file = <<>>
    /\ records_after = <<>>
    /\ totals = <<>>
IdleCommon ==
    /\ folders = <<>>
    /\ subfolders_left = <<>>
    /\ json_common = <<>>
    /\ common_found = <<>>
    /\ common_json_found = <<>>
IdleRestFiles ==
    /\ IdleSamples
    /\ IdleCells
    /\ IdleEmotion
    /\ IdleLabels
    /\ IdleMatrix
    /\ IdleAlpha
    /\ IdleAgreement
    /\ IdleKappa
    /\ IdleKendall
    /\ IdlePvalues
    /\ IdlePermute
    /\ IdleDiscrete
    /\ IdleDisagree
    /\ IdlePartition
    /\ IdleExtract
    /\ IdleFilter
    /\ IdleCommon
IdleRestSamples ==
    /\ IdleFiles
    /\ IdleCells
    /\ IdleEmotion
    /\ IdleLabels
    /\ IdleMatrix
    /\ IdleAlpha
    /\ IdleAgreement
    /\ IdleKappa
    /\ IdleKendall
    /\ IdlePvalues
    /\ IdlePermute
    /\ IdleDiscrete
    /\ IdleDisagree
    /\ IdlePartition
    /\ IdleExtract
    /\ IdleFilter
    /\ IdleCommon
IdleRestCells ==
    /\ IdleFiles
    /\ IdleSamples
    /\ IdleEmotion
    /\ IdleLabels
    /\ IdleMatrix
    /\ IdleAlpha
    /\ IdleAgreement
    /\ IdleKappa
    /\ IdleKendall
    /\ IdlePvalues
    /\ IdlePermute
    /\ IdleDiscrete
    /\ IdleDisagree
    /\ IdlePartition
    /\ IdleExtract
    /\ IdleFilter
    /\ IdleCommon
IdleRestEmotion ==
    /\ IdleFiles
    /\ IdleSamples
    /\ IdleCells
    /\ IdleLabels
    /\ IdleMatrix
    /\ IdleAlpha
    /\ IdleAgreement
    /\ IdleKappa
    /\ IdleKendall
    /\ IdlePvalues
    /\ IdlePermute
    /\ IdleDiscrete
    /\ IdleDisagree
    /\ IdlePartition
    /\ IdleExtract
    /\ IdleFilter
    /\ IdleCommon
IdleRestLabels ==
    /\ IdleFiles
    /\ IdleSamples
    /\ IdleCells
    /\ IdleEmotion
    /\ IdleMatrix
    /\ IdleAlpha
    /\ IdleAgreement
    /\ IdleKappa
    /\ IdleKendall
    /\ IdlePvalues
    /\ IdlePermute
    /\ IdleDiscrete
    /\ IdleDisagree
    /\ IdlePartition
    /\ IdleExtract
    /\ IdleFilter
    /\ IdleCommon
IdleRestMatrix ==
    /\ IdleFiles
    /\ IdleSamples
    /\ IdleCells
    /\ IdleEmotion
    /\ IdleLabels
    /\ IdleAlpha
    /\ IdleAgreement
    /\ IdleKappa
    /\ IdleKendall
    /\ IdlePvalues
    /\ IdlePermute
    /\ IdleDiscrete
    /\ IdleDisagree
    /\ IdlePartition
    /\ IdleExtract
    /\ IdleFilter
    /\ IdleCommon
IdleRestAlpha ==
    /\ IdleFiles
    /\ IdleSamples
    /\ IdleCells
    /\ IdleEmotion
    /\ IdleLabels
    /\ IdleMatrix
    /\ IdleAgreement
    /\ IdleKappa
    /\ IdleKendall
    /\ IdlePvalues
    /\ IdlePermute
    /\ IdleDiscrete
    /\ IdleDisagree
    /\ IdlePartition
    /\ IdleExtract
    /\ IdleFilter
    /\ IdleCommon
IdleRestAgreement ==
    /\ IdleFiles
    /\ IdleSamples
    /\ IdleCells
    /\ IdleEmotion
    /\ IdleLabels
    /\ IdleMatrix
    /\ IdleAlpha
    /\ IdleKappa
    /\ IdleKendall
    /\ IdlePvalues
    /\ IdlePermute
    /\ IdleDiscrete
    /\ IdleDisagree
    /\ IdlePartition
    /\ IdleExtract
    /\ IdleFilter
    /\ IdleCommon
IdleRestKappa ==
    /\ IdleFiles
    /\ IdleSamples
    /\ IdleCells
    /\ IdleEmotion
    /\ IdleLabels
    /\ IdleMatrix
    /\ IdleAlpha
    /\ IdleAgreement
    /\ IdleKendall
    /\ IdlePvalues
    /\ IdlePermute
    /\ IdleDiscrete
    /\ IdleDisagree
    /\ IdlePartition
    /\ IdleExtract
    /\ IdleFilter
    /\ IdleCommon
IdleRestKendall ==
    /\ IdleFiles
    /\ IdleSamples
    /\ IdleCells
    /\ IdleEmotion
    /\ IdleLabels
    /\ IdleMatrix
    /\ IdleAlpha
    /\ IdleAgreement
    /\ IdleKappa
    /\ IdlePvalues
    /\ IdlePermute
    /\ IdleDiscrete
    /\ IdleDisagree
    /\ IdlePartition
    /\ IdleExtract
    /\ IdleFilter
    /\ IdleCommon
IdleRestPvalues ==
    /\ IdleFiles
    /\ IdleSamples
    /\ IdleCells
    /\ IdleEmotion
    /\ IdleLabels
    /\ IdleMatrix
    /\ IdleAlpha
    /\ IdleAgreement
    /\ IdleKappa
    /\ IdleKendall
    /\ IdlePermute
    /\ IdleDiscrete
    /\ IdleDisagree
    /\ IdlePartition
    /\ IdleExtract
    /\ IdleFilter
    /\ IdleCommon
IdleRestPermute ==
    /\ IdleFiles
    /\ IdleSamples
    /\ IdleCells
    /\ IdleEmotion
    /\ IdleLabels
    /\ IdleMatrix
    /\ IdleAlpha
    /\ IdleAgreement
    /\ IdleKappa
    /\ IdleKendall
    /\ IdlePvalues
    /\ IdleDiscrete
    /\ IdleDisagree
    /\ IdlePartition
    /\ IdleExtract
    /\ IdleFilter
    /\ IdleCommon
IdleRestDiscrete ==
    /\ IdleFiles
    /\ IdleSamples
    /\ IdleCells
    /\ IdleEmotion
    /\ IdleLabels
    /\ IdleMatrix
    /\ IdleAlpha
    /\ IdleAgreement
    /\ IdleKappa
    /\ IdleKendall
    /\ IdlePvalues
    /\ IdlePermute
    /\ IdleDisagree
    /\ IdlePartition
    /\ IdleExtract
    /\ IdleFilter
    /\ IdleCommon
IdleRestDisagree ==
    /\ IdleFiles
    /\ IdleSamples
    /\ IdleCells
    /\ IdleEmotion
    /\ IdleLabels
    /\ IdleMatrix
    /\ IdleAlpha
    /\ IdleAgreement
    /\ IdleKappa
    /\ IdleKendall
    /\ IdlePvalues
    /\ IdlePermute
    /\ IdleDiscrete
    /\ IdlePartition
    /\ IdleExtract
    /\ IdleFilter
    /\ IdleCommon
IdleRestPartition ==
    /\ IdleFiles
    /\ IdleSamples
    /\ IdleCells
    /\ IdleEmotion
    /\ IdleLabels
    /\ IdleMatrix
    /\ IdleAlpha
    /\ IdleAgreement
    /\ IdleKappa
    /\ IdleKendall
    /\ IdlePvalues
    /\ IdlePermute
    /\ IdleDiscrete
    /\ IdleDisagree
    /\ IdleExtract
    /\ IdleFilter
    /\ IdleCommon
IdleRestExtract ==
    /\ IdleFiles
    /\ IdleSamples
    /\ IdleCells
    /\ IdleEmotion
    /\ IdleLabels
    /\ IdleMatrix
    /\ IdleAlpha
    /\ IdleAgreement
    /\ IdleKappa
    /\ IdleKendall
    /\ IdlePvalues
    /\ IdlePermute
    /\ IdleDiscrete
    /\ IdleDisagree
    /\ IdlePartition
    /\ IdleFilter
    /\ IdleCommon
IdleRestFilter ==
    /\ IdleFiles
    /\ IdleSamples
    /\ IdleCells
    /\ IdleEmotion
    /\ IdleLabels
    /\ IdleMatrix
    /\ IdleAlpha
    /\ IdleAgreement
    /\ IdleKappa
    /\ IdleKendall
    /\ IdlePvalues
    /\ IdlePermute
    /\ IdleDiscrete
    /\ IdleDisagree
    /\ IdlePartition
    /\ IdleExtract
    /\ IdleCommon
IdleRestCommon ==
    /\ IdleFiles
    /\ IdleSamples
    /\ IdleCells
    /\ IdleEmotion
    /\ IdleLabels
    /\ IdleMatrix
    /\ IdleAlpha
    /\ IdleAgreement
    /\ IdleKappa
    /\ IdleKendall
    /\ IdlePvalues
    /\ IdlePermute
    /\ IdleDiscrete
    /\ IdleDisagree
    /\ IdlePartition
    /\ IdleExtract
    /\ IdleFilter

-----------------------------------------------------------------------------
(* Shared vocabulary *)

\* annotators = ["huangjun", "liuyang", "yuhangbin"], in list order
annotators == <<"huangjun", "liuyang", "yuhangbin">>
AnnotatorSet == {annotators[i] : i \in DOMAIN annotators}
NAnnotators == Len(annotators)

\* JSON values: a number, null (Python None), or a string.
Null == <<"null">>
Num(n) == <<"num", n>>
Str(s) == <<"str", s>>
IsNum(v) == v[1] = "num"

\* dict.get(key, default): the default is used only when the key is absent;
\* a key present with null yields None.
Get(item, key, default) == IF key \in DOMAIN item THEN item[key] ELSE default

\* A list item that is not a dict (isinstance(item, dict) fails).
NotADict == [not_a_dict |-> TRUE]
IsDict(item) == "not_a_dict" \notin DOMAIN item

\* set intersection of a non-empty family of sets
RECURSIVE Intersection(_)
Intersection(family) ==
    LET s == CHOOSE t \in family : TRUE
    IN  IF family = {s} THEN s ELSE s \cap Intersection(family \ {s})

-----------------------------------------------------------------------------
(* SpecFiles: caculate_cronbach_alpha.py load_annotations *)

\* File names are <<stem, suffix>>.
MaxStems == 2
Stems == 1..MaxStems
Suffixes == {"_labels.json", ".txt"}
FileNames == Stems \X Suffixes

\* f.endswith("_labels.json")
EndsWithLabels(f) == f[2] = "_labels.json"

\* files = [f for f in os.listdir(annotator_dir) if f.endswith("_labels.json")]
LabelFiles(annotator) == {f \in listing[annotator] : EndsWithLabels(f)}

\* One iteration of the per-annotator loop: an empty accumulator is
\* (re)initialised from the current set, a non-empty one is intersected.
FoldFiles(acc, s) == IF acc = {} THEN s ELSE acc \cap s

InitFiles ==
    /\ pc = "scan"
    /\ raised = "none"
    /\ listing \in [AnnotatorSet -> SUBSET FileNames]
    /\ scan_i = 0
    /\ common_files = {}
    /\ all_data_keys = {}
    /\ IdleRestFiles

\* for annotator in annotators: ... common_files (&)= set(files)
ScanDir ==
    /\ pc = "scan"
    /\ scan_i < NAnnotators
    /\ scan_i' = scan_i + 1
    /\ common_files' = FoldFiles(common_files, LabelFiles(annotators[scan_i + 1]))
    /\ pc' = IF scan_i + 1 = NAnnotators THEN "load" ELSE "scan"
    /\ UNCHANGED <<raised, listing, all_data_keys, restFiles>>

\* for filename in common_files: open(...) under every annotator directory.
\* open() of a path that does not exist raises FileNotFoundError.
OpenFile(filename) ==
    /\ pc = "load"
    /\ filename \in common_files \ all_data_keys
    /\ IF \A a \in AnnotatorSet : filename \in listing[a]
         THEN /\ all_data_keys' = all_data_keys \cup {filename}
              /\ UNCHANGED <<pc, raised>>
         ELSE /\ raised' = "FileNotFoundError"
              /\ pc' = "raised"
              /\ UNCHANGED all_data_keys
    /\ UNCHANGED <<listing, scan_i, common_files, restFiles>>

\* return all_data, list(annotators)
ReturnAllData ==
    /\ pc = "load"
    /\ all_data_keys = common_files
    /\ pc' = "done"
    /\ UNCHANGED <<raised, varsFiles, restFiles>>

NextFiles ==
    \/ ScanDir
    \/ \E filename \in FileNames : OpenFile(filename)
    \/ ReturnAllData

SpecFiles == InitFiles /\ [][NextFiles]_vars

\* C2: once every annotator directory has been listed, common_files is the
\* exact intersection of the annotators' sets of "_labels.json" file names
\* (so it is empty when no file name is present in all three directories).
C2_CommonFilesIsIntersection ==
    scan_i = NAnnotators =>
        common_files = Intersection({LabelFiles(a) : a \in AnnotatorSet})

-----------------------------------------------------------------------------
(* SpecSamples: count_consistent_data.py on one file of common_files *)

MaxItems == 2
SampleIds == {"s1.wav", "s2.wav"}
Scores == {0, 1}

\* The items a label file may list: annotation records (a_value left out,
\* so the default of .get applies) and one item that is no dict.
SampleItems ==
    {[audio_file |-> id, v_value |-> Num(v)] : id \in SampleIds, v \in Scores}
        \cup {NotADict}
SampleLists == UNION {[1..n -> SampleItems] : n \in 0..MaxItems}

\* The file under one annotator directory: absent, not parseable, or a list.
FileStates ==
    {[kind |-> "missing", items |-> <<>>], [kind |-> "malformed", items |-> <<>>]}
        \cup {[kind |-> "ok", items |-> l] : l \in SampleLists}

\* if os.path.exists(file_path): try: file_data[annotator] = json.load(f)
\* except json.JSONDecodeError: print(...); else: print("File not found").
\* file_data[annotator] keeps its initial [] in both failure cases.
LoadedList(state) == IF state.kind = "ok" THEN state.items ELSE <<>>

\* processed_data[annotator][item["audio_file"]] = item, for the items that
\* are dicts with an "audio_file" key; a later item replaces an earlier one.
DictFromList(items) ==
    LET keyed == {i \in DOMAIN items :
                     IsDict(items[i]) /\ "audio_file" \in DOMAIN items[i]}
        keys == {items[i].audio_file : i \in keyed}
        last(k) == CHOOSE i \in keyed :
                      /\ items[i].audio_file = k
                      /\ \A j \in keyed : items[j].audio_file = k => j <= i
    IN  [k \in keys |-> items[last(k)]]

\* if not common_audio_files: common_audio_files = set(keys)
\* else: common_audio_files &= set(keys)
FoldSamples(acc, keys) == IF acc = {} THEN keys ELSE acc \cap keys

\* the first and the last value only
FirstIsLast(values) == values[1] = values[Len(values)]

\* len(set(values)) == 1
AllSame(values) == Cardinality({values[i] : i \in DOMAIN values}) = 1

ZeroCounts ==
    [total_samples |-> 0, v_consistent_count |-> 0,
     a_consistent_count |-> 0, both_consistent_count |-> 0]

InitSamples ==
    /\ pc = "load"
    /\ raised = "none"
    /\ disk \in [AnnotatorSet -> FileStates]
    /\ file_data = [a \in AnnotatorSet |-> <<>>]
    /\ processed_data = [a \in AnnotatorSet |-> <<>>]
    /\ fold_i = 0
    /\ common_audio_files = {}
    /\ todo = {}
    /\ counts = ZeroCounts
    /\ consistent_data = <<>>
    /\ printed = <<>>
    /\ IdleRestSamples

\* load_annotations: the inner loop over the annotators for one filename
LoadFile ==
    /\ pc = "load"
    /\ file_data' = [a \in AnnotatorSet |-> LoadedList(disk[a])]
    /\ pc' = "convert"
    /\ UNCHANGED <<raised, disk, processed_data, fold_i, common_audio_files,
                   todo, counts, consistent_data, printed, restSamples>>

\* count_consistent_data: the lists become dicts keyed by audio_file
Convert ==
    /\ pc = "convert"
    /\ processed_data' = [a \in AnnotatorSet |-> DictFromList(file_data[a])]
    /\ pc' = "fold"
    /\ UNCHANGED <<raised, disk, file_data, fold_i, common_audio_files,
                   todo, counts, consistent_data, printed, restSamples>>

\* one iteration of "for annotator in annotators" building common_audio_files
FoldAnnotator ==
    /\ pc = "fold"
    /\ fold_i < NAnnotators
    /\ fold_i' = fold_i + 1
    /\ common_audio_files' =
          FoldSamples(common_audio_files,
                      DOMAIN processed_data[annotators[fold_i + 1]])
    /\ UNCHANGED <<pc, raised, disk, file_data, processed_data, todo, counts,
                   consistent_data, printed, restSamples>>

\* total_samples += len(common_audio_files)
CountCommon ==
    /\ pc = "fold"
    /\ fold_i = NAnnotators
    /\ counts' = [counts EXCEPT
                    !.total_samples = @ + Cardinality(common_audio_files)]
    /\ todo' = common_audio_files
    /\ pc' = "check"
    /\ UNCHANGED <<raised, disk, file_data, processed_data, fold_i,
                   common_audio_files, consistent_data, printed, restSamples>>

\* The body of "for audio_file in common_audio_files".  The lookup
\* processed_data[annotator][audio_file] raises KeyError when the annotator
\* has no record of the sample.
CheckSample(audio_file) ==
    /\ pc = "check"
    /\ audio_file \in todo
    /\ IF \E a \in AnnotatorSet : audio_file \notin DOMAIN processed_data[a]
         THEN /\ raised' = "KeyError"
              /\ pc' = "raised"
              /\ UNCHANGED <<todo, counts, consistent_data>>
         ELSE LET item(i) == processed_data[annotators[i]][audio_file]
                  vs == [i \in 1..NAnnotators |->
                                  Get(item(i), "v_value", Num(0))]
                  as == [i \in 1..NAnnotators |->
                                  Get(item(i), "a_value", Num(0))]
                  v_consistent == AllSame(vs)
                  a_consistent == AllSame(as)
                  both == v_consistent /\ a_consistent
              IN  /\ counts' = [counts EXCEPT
                        !.v_consistent_count = @ + IF v_consistent THEN 1 ELSE 0,
                        !.a_consistent_count = @ + IF a_consistent THEN 1 ELSE 0,
                        !.both_consistent_count = @ + IF both THEN 1 ELSE 0]
                  /\ consistent_data' =
                        IF both
                          THEN Append(consistent_data,
                                      [audio_file |-> audio_file,
                                       v_value |-> vs[1],
                                       a_value |-> as[1]])
                          ELSE consistent_data
                  /\ todo' = todo \ {audio_file}
                  /\ UNCHANGED <<pc, raised>>
    /\ UNCHANGED <<disk, file_data, processed_data, fold_i,
                   common_audio_files, printed, restSamples>>

\* print_consistency_summary: every percentage is count / total * 100, and
\* total == 0 raises ZeroDivisionError at the first of them.
PrintSummary ==
    /\ pc = "check"
    /\ todo = {}
    /\ IF counts.total_samples = 0
         THEN /\ raised' = "ZeroDivisionError"
              /\ pc' = "raised"
              /\ UNCHANGED printed
         ELSE /\ printed' =
                    [v |-> <<counts.v_consistent_count * 100, counts.total_samples>>,
                     a |-> <<counts.a_consistent_count * 100, counts.total_samples>>,
                     both |-> <<counts.both_consistent_count * 100,
                                counts.total_samples>>]
              /\ pc' = "done"
              /\ UNCHANGED raised
    /\ UNCHANGED <<disk, file_data, processed_data, fold_i, common_audio_files,
                   todo, counts, consistent_data, restSamples>>

NextSamples ==
    \/ LoadFile
    \/ Convert
    \/ FoldAnnotator
    \/ CountCommon
    \/ \E audio_file \in SampleIds : CheckSample(audio_file)
    \/ PrintSummary

SpecSamples == InitSamples /\ [][NextSamples]_vars

\* the sample ids an annotator's copy of the file holds
IdsOf(a) == DOMAIN DictFromList(LoadedList(disk[a]))

\* C1: after the per-annotator fold, common_audio_files is the exact
\* intersection of the three annotators' sample-id sets.
C1_CommonSamplesIsIntersection ==
    (pc = "fold" /\ fold_i = NAnnotators) =>
        common_audio_files = Intersection({IdsOf(a) : a \in AnnotatorSet})

\* C7: when one annotator's copy of the file is malformed or missing, the
\* file adds no sample to the aggregates and the run does not raise,
\* whichever annotator is affected.
C7_BadCopyContributesNothing ==
    (\E a \in AnnotatorSet : disk[a].kind \in {"malformed", "missing"}) =>
        /\ raised # "KeyError"
        /\ counts.total_samples = 0
        /\ consistent_data = <<>>

\* C8: when the alignment yields no common sample, the summary stage
\* completes without raising (no percentage divides by a zero count).
C8_NoCommonDataNoRaise ==
    (pc \in {"check", "done", "raised"} /\ common_audio_files = {}) =>
        raised = "none"

-----------------------------------------------------------------------------
(* SpecCells: extract_inconsistent_data.py find_inconsistent_data, the     *)
(* body of the loop for one sample every annotator has a record of         *)

\* The v_value / a_value of a record: a number, JSON null, or no such key.
CellValues == {Num(n) : n \in Scores} \cup {Null}
CellRecords ==
    {[audio_file |-> "s1.wav"]}
        \cup {[audio_file |-> "s1.wav", v_value |-> v] : v \in CellValues}
        \cup {[audio_file |-> "s1.wav", a_value |-> a] : a \in CellValues}
        \cup {[audio_file |-> "s1.wav", v_value |-> v, a_value |-> a] :
                 v \in CellValues, a \in CellValues}

\* max(values) - min(values) compares the cells with > and <; None is not
\* ordered against anything, so a row holding None raises TypeError.
Comparable(values) == \A i \in DOMAIN values : IsNum(values[i])
Maximum(ns) == CHOOSE n \in ns : \A m \in ns : m <= n
Minimum(ns) == CHOOSE n \in ns : \A m \in ns : n <= m
Range(values) ==
    LET ns == {values[i][2] : i \in DOMAIN values}
    IN  Maximum(ns) - Minimum(ns)

InitCells ==
    /\ pc = "collect"
    /\ raised = "none"
    /\ sample_items \in [AnnotatorSet -> CellRecords]
    /\ v_values = <<>>
    /\ a_values = <<>>
    /\ inconsistent_data = <<>>
    /\ IdleRestCells

\* for annotator in annotators: v_values.append(item.get("v_value", 0)) ...
CollectAnnotator ==
    /\ pc = "collect"
    /\ Len(v_values) < NAnnotators
    /\ LET item == sample_items[annotators[Len(v_values) + 1]]
       IN  /\ v_values' = Append(v_values, Get(item, "v_value", Num(0)))
           /\ a_values' = Append(a_values, Get(item, "a_value", Num(0)))
    /\ pc' = IF Len(v_values) + 1 = NAnnotators THEN "range" ELSE "collect"
    /\ UNCHANGED <<raised, sample_items, inconsistent_data, restCells>>

\* v_range = max(v_values) - min(v_values); a_range likewise; the sample is
\* appended to inconsistent_data when either range is > 0.
Classify ==
    /\ pc = "range"
    /\ IF Comparable(v_values) /\ Comparable(a_values)
         THEN LET v_inconsistent == Range(v_values) > 0
                  a_inconsistent == Range(a_values) > 0
              IN  /\ inconsistent_data' =
                        IF v_inconsistent \/ a_inconsistent
                          THEN Append(inconsistent_data,
                                 [audio_file |-> "s1.wav",
                                  inconsistency_type |->
                                     (IF v_inconsistent THEN <<"valence">> ELSE <<>>)
                                       \o (IF a_inconsistent THEN <<"arousal">> ELSE <<>>)])
                          ELSE inconsistent_data
                  /\ pc' = "done"
                  /\ UNCHANGED raised
         ELSE /\ raised' = "TypeError"
              /\ pc' = "raised"
              /\ UNCHANGED inconsistent_data
    /\ UNCHANGED <<sample_items, v_values, a_values, restCells>>

NextCells ==
    \/ CollectAnnotator
    \/ Classify

SpecCells == InitCells /\ [][NextCells]_vars

\* the field is absent from the record or holds JSON null
MissingOrNull(item, key) == key \notin DOMAIN item \/ item[key] = Null

\* C4: a record whose v_value or a_value is absent or JSON null puts the
\* numeric sentinel 0 into the row, never None, and the extraction does
\* not raise.
C4_MissingOrNullYieldsZero ==
    /\ raised = "none"
    /\ \A i \in DOMAIN v_values :
          /\ MissingOrNull(sample_items[annotators[i]], "v_value")
                => v_values[i] = Num(0)
          /\ MissingOrNull(sample_items[annotators[i]], "a_value")
                => a_values[i] = Num(0)

-----------------------------------------------------------------------------
(* SpecEmotion: the null rule for discrete_emotion, as applied to one      *)
(* annotator's list by extract_emotion_labels (calculate_emotion_kappa.py) *)
(* and by load_discrete_emotions (plot_discrete_emotion_pie.py)            *)

MaxRecords == 2
EmotionIds == {"s1.wav", "s2.wav"}
\* a label, the empty string (not None, though falsy), or JSON null
DiscreteValues == {Str("happy"), Str(""), Null}
TypeValues == {Str("neutral"), Str("emotional")}
EmotionItems ==
    {[audio_file |-> id, discrete_emotion |-> d] :
        id \in EmotionIds, d \in DiscreteValues}
    \cup {[audio_file |-> id, discrete_emotion |-> d, emotion_type |-> t] :
        id \in EmotionIds, d \in DiscreteValues, t \in TypeValues}
EmotionLists == UNION {[1..n -> EmotionItems] : n \in 0..MaxRecords}

\* next((item.get(key) for item in items if item["audio_file"] == audio_file),
\*      None): the field of the first matching record, None without a match
\* or without the key.
FirstField(items, audio_file, key) ==
    LET matches == {i \in DOMAIN items : items[i].audio_file = audio_file}
    IN  IF matches = {}
          THEN Null
          ELSE Get(items[CHOOSE i \in matches : \A j \in matches : i <= j],
                   key, Null)

\* if label is None: label = "neutral" if emotion_type == "neutral"
\*                   else "undefined"
NullRuleAlwaysNeutral(label, emotion_type) ==
    IF label = Null THEN Str("neutral") ELSE label
NullRule(label, emotion_type) ==
    IF label = Null
      THEN IF emotion_type = Str("neutral") THEN Str("neutral")
                                            ELSE Str("undefined")
      ELSE label

\* extract_emotion_labels: the label of (audio_file, person)
ExtractLabel(items, audio_file) ==
    NullRule(FirstField(items, audio_file, "discrete_emotion"),
             FirstField(items, audio_file, "emotion_type"))

\* load_discrete_emotions: the entry appended to emotions for one item
PieEmotion(item) ==
    LET emotion == Get(item, "discrete_emotion", Null)
    IN  IF emotion = Null
          THEN IF Get(item, "emotion_type", Null) = Str("neutral")
                 THEN Str("neutral")
                 ELSE Str("undefined")
          ELSE emotion

InitEmotion ==
    /\ pc = "run"
    /\ raised = "none"
    /\ person_data \in EmotionLists
    /\ emotions = <<>>
    /\ person_labels = <<>>
    /\ IdleRestEmotion

\* load_discrete_emotions: one iteration of "for item in data"
AppendEmotion ==
    /\ pc = "run"
    /\ Len(emotions) < Len(person_data)
    /\ emotions' = Append(emotions, PieEmotion(person_data[Len(emotions) + 1]))
    /\ UNCHANGED <<pc, raised, person_data, person_labels, restEmotion>>

\* extract_emotion_labels: labels[audio_file][person] = label, for an
\* audio_file of all_audio_files (which any annotator may have contributed)
LabelSample(audio_file) ==
    /\ pc = "run"
    /\ audio_file \notin DOMAIN person_labels
    /\ person_labels' =
          [id \in DOMAIN person_labels \cup {audio_file} |->
              IF id = audio_file THEN ExtractLabel(person_data, audio_file)
                                 ELSE person_labels[id]]
    /\ UNCHANGED <<pc, raised, person_data, emotions, restEmotion>>

NextEmotion ==
    \/ AppendEmotion
    \/ \E audio_file \in EmotionIds : LabelSample(audio_file)

SpecEmotion == InitEmotion /\ [][NextEmotion]_vars

\* the category the rule assigns to a record
IsNullEmotion(item) ==
    "discrete_emotion" \notin DOMAIN item \/ item.discrete_emotion = Null
HasNeutralType(item) ==
    "emotion_type" \in DOMAIN item /\ item.emotion_type = Str("neutral")
FirstRecord(audio_file) ==
    person_data[CHOOSE i \in DOMAIN person_data :
                   /\ person_data[i].audio_file = audio_file
                   /\ \A j \in 1..(i - 1) : person_data[j].audio_file # audio_file]
Categorised(item, category) ==
    /\ IsNullEmotion(item) =>
          /\ category = Str("neutral") <=> HasNeutralType(item)
          /\ category = Str("undefined") <=> ~HasNeutralType(item)
    /\ ~IsNullEmotion(item) => category = item.discrete_emotion

-----------------------------------------------------------------------------
(* SpecLabels: calculate_emotion_kappa.py extract_emotion_labels *)

LabelItems ==
    {[audio_file |-> id, discrete_emotion |-> d] :
        id \in EmotionIds, d \in {Str("happy"), Null}}
LabelLists == UNION {[1..n -> LabelItems] : n \in 0..MaxRecords}

InitLabels ==
    /\ pc = "update"
    /\ raised = "none"
    /\ data \in [AnnotatorSet -> LabelLists]
    /\ all_audio_files = {}
    /\ update_i = 0
    /\ labels = <<>>
    /\ IdleRestLabels

\* for person in persons:
\*     all_audio_files.update(item["audio_file"] for item in data[person])
UpdateAudioFiles ==
    /\ pc = "update"
    /\ update_i < NAnnotators
    /\ LET items == data[annotators[update_i + 1]]
       IN  all_audio_files' =
              all_audio_files \cup {items[i].audio_file : i \in DOMAIN items}
    /\ update_i' = update_i + 1
    /\ pc' = IF update_i + 1 = NAnnotators THEN "label" ELSE "update"
    /\ UNCHANGED <<raised, data, labels, restLabels>>

\* for audio_file in all_audio_files: labels[audio_file] = {person: label}
LabelAudioFile(audio_file) ==
    /\ pc = "label"
    /\ audio_file \in all_audio_files \ DOMAIN labels
    /\ labels' =
          [id \in DOMAIN labels \cup {audio_file} |->
              IF id = audio_file
                THEN [person \in AnnotatorSet |->
                         ExtractLabel(data[person], audio_file)]
                ELSE labels[id]]
    /\ UNCHANGED <<pc, raised, data, all_audio_files, update_i, restLabels>>

\* return labels
ReturnLabels ==
    /\ pc = "label"
    /\ DOMAIN labels = all_audio_files
    /\ pc' = "done"
    /\ UNCHANGED <<raised, varsLabels, restLabels>>

NextLabels ==
    \/ UpdateAudioFiles
    \/ \E audio_file \in EmotionIds : LabelAudioFile(audio_file)
    \/ ReturnLabels

SpecLabels == InitLabels /\ [][NextLabels]_vars

HasRecord(person, audio_file) ==
    \E i \in DOMAIN data[person] : data[person][i].audio_file = audio_file

\* C5: every sample id that is a row of the labels table is an id each of
\* the three annotators has a record for.
C5_RowsAreAligned ==
    \A audio_file \in DOMAIN labels :
        \A person \in AnnotatorSet : HasRecord(person, audio_file)

-----------------------------------------------------------------------------
(* SpecMatrix: caculate_va_value.py load_annotations / extract_va_values,  *)
(* the script run twice over the same files                                *)

MatrixFiles == {"spk1_labels.json", "spk2_labels.json"}
NoFile == "-"

\* the record an annotator's list holds for a sample id
RecordOf(id) == [audio_file |-> id, v_value |-> Num(score[id])]

\* processed_data of one file: annotator -> {audio_file -> item}
ProcessedData(file) ==
    [a \in AnnotatorSet |-> [id \in all_data[file][a] |-> RecordOf(id)]]

\* common_audio_files = set(); for annotator in annotators:
\*     if not common_audio_files: common_audio_files = set(keys)
\*     else: common_audio_files &= set(keys)
RECURSIVE FoldAnnotators(_, _, _)
FoldAnnotators(pd, i, acc) ==
    IF i > NAnnotators
      THEN acc
      ELSE LET keys == DOMAIN pd[annotators[i]]
           IN  FoldAnnotators(pd, i + 1, IF acc = {} THEN keys ELSE acc \cap keys)
CommonAudioFiles(pd) == FoldAnnotators(pd, 1, {})

\* the cells one common sample adds, in annotator order
Cells(pd, audio_file, key) ==
    [i \in 1..NAnnotators |-> Get(pd[annotators[i]][audio_file], key, Num(0))]

\* np.array([valence_data[audio_file] for audio_file in valence_data])
MatrixOf(dict_data) == [i \in DOMAIN row_order |-> dict_data[row_order[i]]]

InitMatrix ==
    /\ pc = "run"
    /\ raised = "none"
    /\ all_data \in [MatrixFiles -> [AnnotatorSet -> SUBSET SampleIds]]
    /\ score \in [SampleIds -> Scores]
    /\ run = 1
    /\ files_left = MatrixFiles
    /\ cur_file = NoFile
    /\ samples_left = {}
    /\ valence_data = <<>>
    /\ arousal_data = <<>>
    /\ row_order = <<>>
    /\ matrices = <<>>
    /\ IdleRestMatrix

\* "for filename in common_files" fills all_data and "for filename, file_data
\* in all_data.items()" visits it in that order: the iteration order of a
\* set of str, which the interpreter's hash seed decides anew in every run.
VisitFile(file) ==
    /\ pc = "run"
    /\ samples_left = {}
    /\ file \in files_left
    /\ files_left' = files_left \ {file}
    /\ cur_file' = file
    /\ samples_left' = CommonAudioFiles(ProcessedData(file))
    /\ UNCHANGED <<pc, raised, all_data, score, run, valence_data,
                   arousal_data, row_order, matrices, restMatrix>>

\* The body of "for audio_file in common_audio_files" (again a set of str):
\* a new key gets an empty list, then every annotator's cell is appended.
AppendCells(audio_file) ==
    /\ pc = "run"
    /\ audio_file \in samples_left
    /\ LET pd == ProcessedData(cur_file)
           old(d) == IF audio_file \in DOMAIN d THEN d[audio_file] ELSE <<>>
           put(d, cells) ==
               [id \in DOMAIN d \cup {audio_file} |->
                   IF id = audio_file THEN old(d) \o cells ELSE d[id]]
       IN  IF \E a \in AnnotatorSet : audio_file \notin DOMAIN pd[a]
             THEN /\ raised' = "KeyError"
                  /\ pc' = "raised"
                  /\ UNCHANGED <<samples_left, valence_data, arousal_data,
                                 row_order>>
             ELSE /\ valence_data' =
                        put(valence_data, Cells(pd, audio_file, "v_value"))
                  /\ arousal_data' =
                        put(arousal_data, Cells(pd, audio_file, "a_value"))
                  /\ row_order' =
                        IF audio_file \in DOMAIN valence_data
                          THEN row_order
                          ELSE Append(row_order, audio_file)
                  /\ samples_left' = samples_left \ {audio_file}
                  /\ UNCHANGED <<pc, raised>>
    /\ UNCHANGED <<all_data, score, run, files_left, cur_file, matrices,
                   restMatrix>>

\* return valence_matrix, arousal_matrix.  After the first run the script
\* is started again on the same files.
ReturnMatrices ==
    /\ pc = "run"
    /\ files_left = {}
    /\ samples_left = {}
    /\ matrices' = Append(matrices, [valence |-> MatrixOf(valence_data),
                                     arousal |-> MatrixOf(arousal_data)])
    /\ IF run = 1
         THEN /\ run' = 2
              /\ files_left' = MatrixFiles
              /\ cur_file' = NoFile
              /\ valence_data' = <<>>
              /\ arousal_data' = <<>>
              /\ row_order' = <<>>
              /\ UNCHANGED pc
         ELSE /\ pc' = "done"
              /\ UNCHANGED <<run, files_left, cur_file, valence_data,
                             arousal_data, row_order>>
    /\ UNCHANGED <<raised, all_data, score, samples_left, restMatrix>>

NextMatrix ==
    \/ \E file \in MatrixFiles : VisitFile(file)
    \/ \E audio_file \in SampleIds : AppendCells(audio_file)
    \/ ReturnMatrices

SpecMatrix == InitMatrix /\ [][NextMatrix]_vars

\* the sample ids all annotators have a record of in some file
AlignedIds ==
    UNION {Intersection({all_data[file][a] : a \in AnnotatorSet}) :
              file \in MatrixFiles}

\* C6: a returned matrix has exactly one row per distinct aligned sample id
\* and every row has exactly len(annotators) cells, also when the same id
\* is common to all annotators in more than one file.
C6_MatrixShape ==
    \A r \in DOMAIN matrices :
        /\ Len(matrices[r].valence) = Cardinality(AlignedIds)
        /\ Len(matrices[r].arousal) = Cardinality(AlignedIds)
        /\ \A i \in DOMAIN matrices[r].valence :
              /\ Len(matrices[r].valence[i]) = NAnnotators
              /\ Len(matrices[r].arousal[i]) = NAnnotators

\* C10: two runs over the same input files return identical matrices: the
\* same rows in the same order.
C10_RunsAgree ==
    Len(matrices) = 2 => matrices[1] = matrices[2]

-----------------------------------------------------------------------------
(* SpecAlpha: caculate_va_value.py calculate_cronbachs_alpha *)

MaxSamples == 3
MaxRaters == 3
Matrices ==
    UNION {[1..n -> [1..k -> Scores]] : n \in 1..MaxSamples, k \in 1..MaxRaters}

\* float64 values: a rational (exact; rounding is not modelled), an
\* infinity with its sign, or NaN.
NaN == <<"nan">>
Inf(sign) == <<"inf", sign>>
Abs(n) == IF n < 0 THEN -n ELSE n
Sign(n) == IF n < 0 THEN -1 ELSE IF n > 0 THEN 1 ELSE 0
RECURSIVE Gcd(_, _)
Gcd(a, b) == IF b = 0 THEN a ELSE Gcd(b, a % b)
Fin(n, d) ==
    LET g == Gcd(Abs(n), Abs(d))
    IN  <<"fin", (Sign(d) * n) \div g, Abs(d) \div g>>
IsFin(x) == x[1] = "fin"
IsInf(x) == x[1] = "inf"

\* IEEE-754 arithmetic on these values
FSub(x, y) ==
    IF x = NaN \/ y = NaN THEN NaN
    ELSE IF IsFin(x) /\ IsFin(y)
      THEN Fin(x[2] * y[3] - y[2] * x[3], x[3] * y[3])
    ELSE IF IsFin(x) THEN Inf(-y[2])
    ELSE IF IsFin(y) THEN x
    ELSE IF x[2] = y[2] THEN NaN ELSE x
FAdd(x, y) ==
    IF x = NaN \/ y = NaN THEN NaN
    ELSE IF IsFin(x) /\ IsFin(y)
      THEN Fin(x[2] * y[3] + y[2] * x[3], x[3] * y[3])
    ELSE IF IsFin(x) THEN y
    ELSE IF IsFin(y) THEN x
    ELSE IF x[2] = y[2] THEN x ELSE NaN
FMul(x, y) ==
    IF x = NaN \/ y = NaN THEN NaN
    ELSE IF IsFin(x) /\ IsFin(y) THEN Fin(x[2] * y[2], x[3] * y[3])
    ELSE IF Sign(x[2]) * Sign(y[2]) = 0 THEN NaN
    ELSE Inf(Sign(x[2]) * Sign(y[2]))
FDiv(x, y) ==
    IF x = NaN \/ y = NaN THEN NaN
    ELSE IF IsFin(x) /\ IsFin(y)
      THEN IF y[2] # 0 THEN Fin(x[2] * y[3], x[3] * y[2])
           ELSE IF x[2] = 0 THEN NaN ELSE Inf(Sign(x[2]))
    ELSE IF IsFin(x) THEN Fin(0, 1)
    ELSE IF IsFin(y) THEN Inf(x[2] * (IF y[2] < 0 THEN -1 ELSE 1))
    ELSE NaN

RECURSIVE SumInts(_)
SumInts(xs) == IF xs = <<>> THEN 0 ELSE Head(xs) + SumInts(Tail(xs))
RECURSIVE SumFloats(_)
SumFloats(xs) ==
    IF xs = <<>> THEN Fin(0, 1) ELSE FAdd(Head(xs), SumFloats(Tail(xs)))

\* np.var(xs, ddof=1): the sum of squared deviations from the mean, divided
\* by n - 1 (a float division: 0/0 gives nan for a single sample).
Var1(xs) ==
    LET n == Len(xs)
        sq == SumInts([i \in 1..n |-> xs[i] * xs[i]])
        sm == SumInts(xs)
    IN  FDiv(Fin(n * sq - sm * sm, n), Fin(n - 1, 1))

\* (`\o <<>>` has TLC build the sequence once; a function expression is
\* otherwise evaluated anew at each application)
Column(m, j) == [i \in DOMAIN m |-> m[i][j]] \o <<>>
RowSums(m) == [i \in DOMAIN m |-> SumInts(m[i])] \o <<>>

\* item_variances = np.var(data_matrix, axis=0, ddof=1)
\* total_item_variance = np.sum(item_variances)
TotalItemVariance(m) ==
    SumFloats([j \in 1..Len(m[1]) |-> Var1(Column(m, j))])
\* total_variance = np.var(np.sum(data_matrix, axis=1), ddof=1)
TotalVariance(m) == Var1(RowSums(m))

\* the ratio without the factor n_items / (n_items - 1)
AlphaWithoutFactor(m) ==
    FSub(Fin(1, 1), FDiv(TotalItemVariance(m), TotalVariance(m)))

\* alpha = (n_items / (n_items - 1)) * (1 - total_item_variance / total_variance)
\* for n_items >= 2; n_items / (n_items - 1) divides Python ints.
AlphaOf(m) ==
    LET n_items == Len(m[1])
    IN  FMul(Fin(n_items, n_items - 1),
             FSub(Fin(1, 1), FDiv(TotalItemVariance(m), TotalVariance(m))))

InitAlpha ==
    /\ pc = "call"
    /\ raised = "none"
    /\ data_matrix \in Matrices
    /\ alpha = <<>>
    /\ IdleRestAlpha

\* calculate_cronbachs_alpha(data_matrix); with a single column the int
\* division n_items / (n_items - 1) raises ZeroDivisionError.
CalculateAlpha ==
    /\ pc = "call"
    /\ IF Len(data_matrix[1]) = 1
         THEN /\ raised' = "ZeroDivisionError"
              /\ pc' = "raised"
              /\ UNCHANGED alpha
         ELSE /\ alpha' = AlphaOf(data_matrix)
              /\ pc' = "done"
              /\ UNCHANGED raised
    /\ UNCHANGED <<data_matrix, restAlpha>>

NextAlpha == CalculateAlpha

SpecAlpha == InitAlpha /\ [][NextAlpha]_vars

\* every sample has the same row sum (at least two samples)
ZeroRowSumVariance(m) ==
    /\ Len(m) >= 2
    /\ \A i, j \in DOMAIN m : SumInts(m[i]) = SumInts(m[j])

\* C9: on a matrix with a single rater column, or whose row sums have zero
\* variance, the call does not raise and returns NaN.
C9_DegenerateGivesNaN ==
    (pc # "call" /\ (Len(data_matrix[1]) = 1 \/ ZeroRowSumVariance(data_matrix)))
        => (raised = "none" /\ alpha = NaN)

\* n * n times the sum of squared deviations of xs from its mean
SquaredDeviations(xs) ==
    LET n == Len(xs)
    IN  SumInts([i \in 1..n |-> (n * xs[i] - SumInts(xs)) * (n * xs[i] - SumInts(xs))])

\* the sample variance (divisor n - 1) of xs as numerator and denominator
SampleVariance(xs) ==
    LET n == Len(xs)
    IN  <<SquaredDeviations(xs), n * n * (n - 1)>>

\* sum of the per-column sample variances; the columns share the denominator
SumColumnVariances(m) ==
    <<SumInts([j \in 1..Len(m[1]) |-> SampleVariance(Column(m, j))[1]]),
      Len(m) * Len(m) * (Len(m) - 1)>>

\* x equals (k / (k - 1)) * (1 - (c[1] / c[2]) / (r[1] / r[2]))
IsAlphaFormula(x, k, c, r) ==
    /\ IsFin(x)
    /\ x[2] * ((k - 1) * c[2] * r[1]) = x[3] * (k * (c[2] * r[1] - c[1] * r[2]))

\* C11: with at least two rater columns and a non-zero sample variance of
\* the row sums, the returned alpha is (k/(k-1)) * (1 - sum of the column
\* sample variances / sample variance of the row sums), divisor n - 1.
C11_AlphaFormula ==
    (/\ pc = "done"
     /\ Len(data_matrix[1]) >= 2
     /\ Len(data_matrix) >= 2
     /\ SampleVariance(RowSums(data_matrix))[1] # 0)
        => IsAlphaFormula(alpha, Len(data_matrix[1]),
                          SumColumnVariances(data_matrix),
                          SampleVariance(RowSums(data_matrix)))

C11_Witness ==
    /\ pc = "done"
    /\ Len(data_matrix) = MaxSamples
    /\ Len(data_matrix[1]) = MaxRaters
    /\ SampleVariance(RowSums(data_matrix))[1] # 0
    /\ SumColumnVariances(data_matrix)[1] # 0
    /\ IsFin(alpha)
    /\ alpha # Fin(0, 1) /\ alpha # Fin(1, 1)

-----------------------------------------------------------------------------
(* SpecAgreement: calculate_fleiss_kappa.py main / calculate_agreement,   *)
(* for value_key = "v_values"                                              *)

MaxAudios == 2
AudioNames == <<"a1.wav", "a2.wav", "a3.wav", "a4.wav">>
AudioIds == {AudioNames[i] : i \in 1..MaxAudios}

\* raters = ["huangjun", "liuyang", "yuhangbin"]
raters == <<"huangjun", "liuyang", "yuhangbin">>
RaterSet == {raters[i] : i \in DOMAIN raters}

\* all_annotations[audio_file]["v_values"] after the loading loop: the
\* item.get("v_value") of every rater that lists the audio (None for a null
\* or absent field).  An audio some rater does not list is represented by
\* the one listed by the first rater only.
RaterValues ==
    [RaterSet -> CellValues] \cup {[r \in {raters[1]} |-> Num(0)]}

\* sorted(xs) for a set of JSON numbers
RECURSIVE SortedValues(_)
SortedValues(xs) ==
    IF xs = {} THEN <<>>
    ELSE LET least == CHOOSE x \in xs : \A y \in xs : x[2] <= y[2]
         IN  <<least>> \o SortedValues(xs \ {least})

\* {value: idx for idx, value in enumerate(sorted(values))}[value]
IndexOf(value, values) == Cardinality({w \in values : w[2] < value[2]})

\* len(set(xs))
Distinct(xs) == Cardinality({xs[i] : i \in DOMAIN xs})

\* str(r) for a JSON integer r
StrOf(r) == Str(ToString(r[2]))

\* statsmodels fleiss_kappa(table): n_rat = table.sum(1).max() raises
\* ValueError on a table without rows, and
\* assert n_total == n_sub * n_rat fails when the rows do not all hold
\* the same number of ratings.
TableTotal(t) == SumInts([i \in DOMAIN t |-> SumInts(t[i])])
MaxRatings(t) ==
    CHOOSE x \in {SumInts(t[i]) : i \in DOMAIN t} :
        \A i \in DOMAIN t : x >= SumInts(t[i])
FleissRaises(t) ==
    IF Len(t) = 0 THEN "ValueError"
    ELSE IF TableTotal(t) # Len(t) * MaxRatings(t) THEN "AssertionError"
    ELSE "none"

\* p_cat = table.sum(0) / n_total
\* p_rat = ((table * table).sum(1) - n_rat) / (n_rat * (n_rat - 1.))
\* kappa = (p_rat.mean() - (p_cat * p_cat).sum()) / (1 - (p_cat * p_cat).sum())
FleissKappaOf(t) ==
    LET n_sub == Len(t)
        n_cat == Len(t[1])
        n_total == TableTotal(t)
        n_rat == MaxRatings(t)
        p_cat == [c \in 1..n_cat |->
                     FDiv(Fin(SumInts([i \in 1..n_sub |-> t[i][c]]), 1),
                          Fin(n_total, 1))]
        p_rat == [i \in 1..n_sub |->
                     FDiv(Fin(SumInts([c \in 1..n_cat |-> t[i][c] * t[i][c]])
                              - n_rat, 1),
                          Fin(n_rat * (n_rat - 1), 1))]
        p_mean == FDiv(SumFloats(p_rat), Fin(n_sub, 1))
        p_mean_exp == SumFloats([c \in 1..n_cat |-> FMul(p_cat[c], p_cat[c])])
    IN  FDiv(FSub(p_mean, p_mean_exp), FSub(Fin(1, 1), p_mean_exp))

\* sklearn cohen_kappa_score(y1, y2, weights): 1 - sum(w * confusion) /
\* sum(w * expected), expected = outer(sum0, sum1) / n; w is 1 off the
\* diagonal (weights=None) or the distance of the label indices ("linear",
\* called with the labels 0..n-1 themselves).
Weight(a, b, weights) ==
    IF weights = "linear" THEN Abs(a - b) ELSE IF a = b THEN 0 ELSE 1
CohenKappaScore(y1, y2, weights) ==
    LET n == Len(y1)
        observed == SumInts([t \in 1..n |-> Weight(y1[t], y2[t], weights)])
        expected == SumInts([t \in 1..n |->
                       SumInts([u \in 1..n |-> Weight(y1[t], y2[u], weights)])])
    IN  FSub(Fin(1, 1), FDiv(Fin(observed, 1), Fin(expected, n)))

\* for audio_file, annotations in all_annotations.items(): dict order,
\* taken to be the order of AudioNames
AudioOrder == [i \in 1..MaxAudios |-> AudioNames[i]]

\* all_annotations[audio_file][value_key].get(rater)
ValueOf(audio_file, rater) ==
    IF rater \in DOMAIN all_annotations[audio_file]
      THEN all_annotations[audio_file][rater] ELSE Null

\* the values of all raters on the common audios that are not None
AllValues(audios) ==
    {ValueOf(audios[i], r) : i \in DOMAIN audios, r \in RaterSet} \ {Null}

\* table[audio_idx, value_to_idx[value]] += 1 for every value that is not None
TableOf(audios) ==
    LET all_values == AllValues(audios)
    IN  [audio_idx \in 1..Len(audios) |->
            [c \in 1..Cardinality(all_values) |->
                Cardinality({r \in RaterSet :
                    /\ ValueOf(audios[audio_idx], r) # Null
                    /\ IndexOf(ValueOf(audios[audio_idx], r), all_values) = c - 1})]]

\* rater_pairs = [(i, j) for i in range(len(raters)) for j in range(i + 1, len(raters))]
rater_pairs == <<<<1, 2>>, <<1, 3>>, <<2, 3>>>>

\* the audios of common_audios where val1 is not None and val2 is not None
BothRated(audios, rater1, rater2) ==
    SelectSeq(audios, LAMBDA a : ValueOf(a, rater1) # Null /\ ValueOf(a, rater2) # Null)
Ratings(audios, rater) == [t \in DOMAIN audios |-> ValueOf(audios[t], rater)]

\* both sequences must vary
BothVary(ratings1_str, ratings2_str) ==
    Distinct(ratings1_str) > 1 /\ Distinct(ratings2_str) > 1

\* if len(set(ratings1_str)) > 1 or len(set(ratings2_str)) > 1
WorthComputing(ratings1_str, ratings2_str) ==
    Distinct(ratings1_str) > 1 \/ Distinct(ratings2_str) > 1

\* no kappa was assigned in this iteration
Unset == <<"unset">>

\* one iteration of `for i, j in rater_pairs`
PairOutcome(audios, rater1, rater2) ==
    LET rated == BothRated(audios, rater1, rater2)
        ratings1 == Ratings(rated, rater1)
        ratings2 == Ratings(rated, rater2)
        ratings1_str == [t \in DOMAIN ratings1 |-> StrOf(ratings1[t])]
        ratings2_str == [t \in DOMAIN ratings2 |-> StrOf(ratings2[t])]
        unique_values == {ratings1[t] : t \in DOMAIN ratings1}
                             \cup {ratings2[t] : t \in DOMAIN ratings2}
        ratings1_int == [t \in DOMAIN ratings1 |-> IndexOf(ratings1[t], unique_values)]
        ratings2_int == [t \in DOMAIN ratings2 |-> IndexOf(ratings2[t], unique_values)]
    IN  IF WorthComputing(ratings1_str, ratings2_str)
          THEN [ratings1 |-> ratings1, ratings2 |-> ratings2,
                simple_kappa |-> CohenKappaScore(ratings1_str, ratings2_str, "none"),
                weighted_kappa |-> CohenKappaScore(ratings1_int, ratings2_int, "linear")]
          ELSE [ratings1 |-> ratings1, ratings2 |-> ratings2,
                simple_kappa |-> Unset, weighted_kappa |-> Unset]

\* values = [v for v in (.get(rater) for rater in raters) if v is not None]
NonNullValues(audio_file) ==
    SelectSeq([k \in DOMAIN raters |-> ValueOf(audio_file, raters[k])],
              LAMBDA v : v # Null)

\* len(values) == len(raters) and len(set(values)) == 1
ExactMatch(audio_file) ==
    /\ Len(NonNullValues(audio_file)) = Len(raters)
    /\ Distinct(NonNullValues(audio_file)) = 1

InitAgreement ==
    /\ pc = "common"
    /\ raised = "none"
    /\ all_annotations \in [AudioIds -> RaterValues]
    /\ common_audios = <<>>
    /\ table = <<>>
    /\ kappa = Unset
    /\ pair_kappas = <<>>
    /\ percent_agreement = Unset
    /\ value_agreement = <<>>
    /\ IdleRestAgreement

\* main: common_audios, the audios every rater has a v_value entry for
FindCommon ==
    /\ pc = "common"
    /\ common_audios' =
          SelectSeq(AudioOrder,
                    LAMBDA a : Cardinality(DOMAIN all_annotations[a]) = Len(raters))
    /\ pc' = "table"
    /\ UNCHANGED <<raised, all_annotations, table, kappa, pair_kappas,
                   percent_agreement, value_agreement, restAgreement>>

\* calculate_agreement: the count table and kappa = fleiss_kappa(table)
FleissTable ==
    /\ pc = "table"
    /\ table' = TableOf(common_audios)
    /\ IF FleissRaises(table') = "none"
         THEN /\ kappa' = FleissKappaOf(table')
              /\ pc' = "pairs"
              /\ UNCHANGED raised
         ELSE /\ raised' = FleissRaises(table')
              /\ pc' = "raised"
              /\ UNCHANGED kappa
    /\ UNCHANGED <<all_annotations, common_audios, pair_kappas,
                   percent_agreement, value_agreement, restAgreement>>

\* calculate_agreement: the next iteration of `for i, j in rater_pairs`
CohenPair ==
    /\ pc = "pairs"
    /\ LET pair == rater_pairs[Len(pair_kappas) + 1]
       IN  pair_kappas' =
              Append(pair_kappas,
                     PairOutcome(common_audios, raters[pair[1]], raters[pair[2]]))
    /\ pc' = IF Len(pair_kappas') = Len(rater_pairs) THEN "percent" ELSE "pairs"
    /\ UNCHANGED <<raised, all_annotations, common_audios, table, kappa,
                   percent_agreement, value_agreement, restAgreement>>

\* percent_agreement = exact_matches / total_items if total_items > 0 else 0
PercentAgreement ==
    /\ pc = "percent"
    /\ LET total_items == Len(common_audios)
           exact_matches ==
               Cardinality({i \in DOMAIN common_audios : ExactMatch(common_audios[i])})
       IN  percent_agreement' =
              IF total_items > 0 THEN Fin(exact_matches, total_items) ELSE Fin(0, 1)
    /\ pc' = "values"
    /\ UNCHANGED <<raised, all_annotations, common_audios, table, kappa,
                   pair_kappas, value_agreement, restAgreement>>

\* for value in sorted(all_values): count / total over the audios that
\* hold the value, printed when total > 0
AgreementPerValue ==
    /\ pc = "values"
    /\ value_agreement' =
          [value \in AllValues(common_audios) |->
              LET holding == {i \in DOMAIN common_audios :
                                \E k \in DOMAIN NonNullValues(common_audios[i]) :
                                    NonNullValues(common_audios[i])[k] = value}
                  agreed == {i \in holding :
                                /\ Len(NonNullValues(common_audios[i])) = Len(raters)
                                /\ \A k \in DOMAIN raters :
                                      NonNullValues(common_audios[i])[k] = value}
              IN  Fin(Cardinality(agreed), Cardinality(holding))]
    /\ pc' = "done"
    /\ UNCHANGED <<raised, all_annotations, common_audios, table, kappa,
                   pair_kappas, percent_agreement, restAgreement>>

NextAgreement ==
    \/ FindCommon
    \/ FleissTable
    \/ CohenPair
    \/ PercentAgreement
    \/ AgreementPerValue

SpecAgreement == InitAgreement /\ [][NextAgreement]_vars

\* C12: every row of the table passed to fleiss_kappa sums to the number
\* of raters, whatever mix of numbers and nulls the records hold.
C12_RowsSumToRaters ==
    pc \notin {"common", "table"} =>
        \A i \in DOMAIN table : SumInts(table[i]) = Len(raters)

\* the common audios on which the three raters' values are identical
IdenticalRows ==
    {i \in DOMAIN common_audios :
        \A r1, r2 \in RaterSet :
            ValueOf(common_audios[i], r1) = ValueOf(common_audios[i], r2)}

\* C13: calculate_agreement ends with percent_agreement = (common audios
\* with three identical values) / (common audios), and 0 without common
\* audios.
C13_PercentAgreement ==
    pc \in {"done", "raised"} =>
        /\ raised = "none"
        /\ percent_agreement =
              IF Len(common_audios) = 0 THEN Fin(0, 1)
              ELSE Fin(Cardinality(IdenticalRows), Len(common_audios))

\* the positions of common_audios where both raters of a pair have a value
RatedByBoth(pair) ==
    {i \in DOMAIN common_audios :
        /\ ValueOf(common_audios[i], raters[pair[1]]) # Null
        /\ ValueOf(common_audios[i], raters[pair[2]]) # Null}
Varies(xs) == \E t, u \in DOMAIN xs : xs[t] # xs[u]

\* C20: each rater pair's kappas are computed over exactly the common
\* audios both raters gave a value, and only when one of the two sequences
\* varies; otherwise no value is produced, nothing is raised and the loop
\* goes on to the next pair.
C20_PairwiseKappa ==
    /\ pc \in {"pairs", "percent", "values", "done"} => raised = "none"
    /\ pc = "pairs" => Len(pair_kappas) < Len(rater_pairs)
    /\ pc \in {"percent", "values", "done"} => Len(pair_kappas) = Len(rater_pairs)
    /\ \A k \in DOMAIN pair_kappas :
          LET rec == pair_kappas[k]
              both == RatedByBoth(rater_pairs[k])
              pos(i) == Cardinality({j \in both : j <= i})
          IN  /\ Len(rec.ratings1) = Cardinality(both)
              /\ Len(rec.ratings2) = Cardinality(both)
              /\ \A i \in both :
                    /\ rec.ratings1[pos(i)] =
                          ValueOf(common_audios[i], raters[rater_pairs[k][1]])
                    /\ rec.ratings2[pos(i)] =
                          ValueOf(common_audios[i], raters[rater_pairs[k][2]])
              /\ IF Varies(rec.ratings1) \/ Varies(rec.ratings2)
                   THEN IsFin(rec.simple_kappa) /\ IsFin(rec.weighted_kappa)
                   ELSE rec.simple_kappa = Unset /\ rec.weighted_kappa = Unset

C20_Witness ==
    /\ pc = "done"
    /\ Len(common_audios) = MaxAudios
    /\ pair_kappas[1].simple_kappa = Unset
    /\ Len(pair_kappas[1].ratings1) < Len(common_audios)
    /\ IsFin(pair_kappas[3].simple_kappa)
    /\ Varies(pair_kappas[3].ratings2) /\ ~Varies(pair_kappas[3].ratings1)

-----------------------------------------------------------------------------
(* SpecKappa: calculate_emotion_kappa.py main, from the labels table on    *)

MaxLabelled == 3

\* the category strings, in sorted() order
CategoryOrder == <<"happy", "neutral">>
Categories == {CategoryOrder[i] : i \in DOMAIN CategoryOrder}

\* labels.values(): one {person: label} dict per audio file
LabelRows == [AnnotatorSet -> Categories]
LabelTables == UNION {[1..n -> LabelRows] : n \in 0..MaxLabelled}

\* all_emotions: every label that occurs in the table
AllEmotions(lbls) == {lbls[i][person] : i \in DOMAIN lbls, person \in AnnotatorSet}

\* emotion_mapping = {emotion: idx for idx, emotion in enumerate(sorted(all_emotions))}
EmotionMapping(lbls) ==
    [emotion \in AllEmotions(lbls) |->
        Cardinality({k \in DOMAIN CategoryOrder :
            /\ CategoryOrder[k] \in AllEmotions(lbls)
            /\ \E j \in DOMAIN CategoryOrder : j > k /\ CategoryOrder[j] = emotion})]

\* a matrix whose cells are set to 1 instead of counted up
RatingsMatrixAssign(lbls) ==
    LET mapping == EmotionMapping(lbls)
    IN  [i \in DOMAIN lbls |->
            [c \in 1..Cardinality(DOMAIN mapping) |->
                IF \E person \in AnnotatorSet : mapping[lbls[i][person]] = c - 1
                  THEN 1 ELSE 0] \o <<>>] \o <<>>

\* ratings_matrix[i, emotion_mapping[emotion]] += 1 for every annotator
RatingsMatrix(lbls) ==
    LET mapping == EmotionMapping(lbls)
    IN  [i \in DOMAIN lbls |->
            [c \in 1..Cardinality(DOMAIN mapping) |->
                Cardinality({person \in AnnotatorSet :
                                mapping[lbls[i][person]] = c - 1})] \o <<>>] \o <<>>

\* agreed_samples: the rows with len(set(annotations.values())) == 1
AgreedSamples(lbls) ==
    SelectSeq(lbls, LAMBDA annotations :
                       Cardinality({annotations[person] : person \in AnnotatorSet}) = 1)

\* agreed_kappa of calculate_separate_kappas
AgreedKappa(lbls) ==
    IF AgreedSamples(lbls) # <<>>
      THEN FleissKappaOf(RatingsMatrix(AgreedSamples(lbls)))
      ELSE NaN

\* values.count(emotion) for one row
CountIn(annotations, emotion) ==
    Cardinality({person \in AnnotatorSet : annotations[person] = emotion})

\* agreement[emotion] += len(annotations), once for every annotator of a
\* row whose values.count(emotion) == len(annotations)
AgreementSum(lbls, category) ==
    SumInts([i \in DOMAIN lbls |->
        IF CountIn(lbls[i], category) = Cardinality(AnnotatorSet)
          THEN CountIn(lbls[i], category) * Cardinality(AnnotatorSet)
          ELSE 0])

\* counts[emotion] += 1 for every annotator of every row
CategoryCount(lbls, category) ==
    SumInts([i \in DOMAIN lbls |-> CountIn(lbls[i], category)])

\* agreement[category] / counts[category] * 100, or 0
AgreementPerCategory(lbls) ==
    [category \in AllEmotions(lbls) |->
        IF CategoryCount(lbls, category) > 0
          THEN FMul(FDiv(Fin(AgreementSum(lbls, category), 1),
                         Fin(CategoryCount(lbls, category), 1)),
                    Fin(100, 1))
          ELSE Fin(0, 1)]

\* x < y on floats: false when either side is NaN
FLess(x, y) ==
    IF x = NaN \/ y = NaN THEN FALSE
    ELSE IF IsFin(x) /\ IsFin(y) THEN x[2] * y[3] < y[2] * x[3]
    ELSE IF IsFin(x) THEN y[2] > 0
    ELSE IF IsFin(y) THEN x[2] < 0
    ELSE x[2] < y[2]

\* the band of a kappa: the first comparison that holds, else the last band
interpret_kappa(k) ==
    IF FLess(k, Fin(0, 1)) THEN "Poor agreement (less than chance)"
    ELSE IF FLess(k, Fin(1, 5)) THEN "Slight agreement"
    ELSE IF FLess(k, Fin(2, 5)) THEN "Fair agreement"
    ELSE IF FLess(k, Fin(3, 5)) THEN "Moderate agreement"
    ELSE IF FLess(k, Fin(4, 5)) THEN "Substantial agreement"
    ELSE "Almost perfect agreement"

InitKappa ==
    /\ pc = "prepare"
    /\ raised = "none"
    /\ emotion_labels \in LabelTables
    /\ ratings_matrix = <<>>
    /\ emotion_mapping = <<>>
    /\ fleiss = Unset
    /\ separate_kappas = Unset
    /\ agreement = <<>>
    /\ interpretation = Unset
    /\ IdleRestKappa

\* ratings_matrix, emotion_mapping = prepare_data_for_kappa(labels)
PrepareData ==
    /\ pc = "prepare"
    /\ ratings_matrix' = RatingsMatrix(emotion_labels)
    /\ emotion_mapping' = EmotionMapping(emotion_labels)
    /\ pc' = "kappa"
    /\ UNCHANGED <<raised, emotion_labels, fleiss, separate_kappas, agreement,
                   interpretation, restKappa>>

\* kappa = calculate_kappa(ratings_matrix)
CalculateKappa ==
    /\ pc = "kappa"
    /\ IF FleissRaises(ratings_matrix) = "none"
         THEN /\ fleiss' = FleissKappaOf(ratings_matrix)
              /\ pc' = "separate"
              /\ UNCHANGED raised
         ELSE /\ raised' = FleissRaises(ratings_matrix)
              /\ pc' = "raised"
              /\ UNCHANGED fleiss
    /\ UNCHANGED <<emotion_labels, ratings_matrix, emotion_mapping,
                   separate_kappas, agreement,
                   interpretation, restKappa>>

\* all_kappa, agreed_kappa = calculate_separate_kappas(labels)
CalculateSeparateKappas ==
    /\ pc = "separate"
    /\ separate_kappas' =
          [all_kappa |-> FleissKappaOf(RatingsMatrix(emotion_labels)),
           agreed_kappa |-> AgreedKappa(emotion_labels)]
    /\ pc' = "category"
    /\ UNCHANGED <<raised, emotion_labels, ratings_matrix, emotion_mapping,
                   fleiss, agreement,
                   interpretation, restKappa>>

\* agreement = calculate_agreement_per_category(labels, emotion_mapping)
CalculateAgreementPerCategory ==
    /\ pc = "category"
    /\ agreement' = AgreementPerCategory(emotion_labels)
    /\ pc' = "report"
    /\ UNCHANGED <<raised, emotion_labels, ratings_matrix, emotion_mapping,
                   fleiss, separate_kappas,
                   interpretation, restKappa>>

\* visualize_results, generate_text_report and the lines main appends to
\* kappa_report.txt: the band of kappa, all_kappa and agreed_kappa
InterpretKappas ==
    /\ pc = "report"
    /\ interpretation' =
          [kappa |-> interpret_kappa(fleiss),
           all_kappa |-> interpret_kappa(separate_kappas.all_kappa),
           agreed_kappa |-> interpret_kappa(separate_kappas.agreed_kappa)]
    /\ pc' = "done"
    /\ UNCHANGED <<raised, emotion_labels, ratings_matrix, emotion_mapping,
                   fleiss, separate_kappas, agreement, restKappa>>

NextKappa ==
    \/ PrepareData
    \/ CalculateKappa
    \/ CalculateSeparateKappas
    \/ CalculateAgreementPerCategory
    \/ InterpretKappas

SpecKappa == InitKappa /\ [][NextKappa]_vars

\* the number of labels c, and of those in rows where every annotator chose c
Occurrences(c) ==
    Cardinality({<<i, person>> \in (DOMAIN emotion_labels) \X AnnotatorSet :
                    emotion_labels[i][person] = c})
UnanimousOccurrences(c) ==
    Cardinality({<<i, person>> \in (DOMAIN emotion_labels) \X AnnotatorSet :
                    \A q \in AnnotatorSet : emotion_labels[i][q] = c})

\* C14: the agreement of category c is 100 * (labels c in rows where all
\* annotators chose c) / (labels c in the table), a value from 0 to 100.
C14_AgreementPerCategory ==
    pc = "done" =>
        \A c \in DOMAIN agreement :
            /\ agreement[c] = Fin(100 * UnanimousOccurrences(c), Occurrences(c))
            /\ agreement[c][2] >= 0
            /\ agreement[c][2] <= 100 * agreement[c][3]

\* the categories of the rows on which the annotators are unanimous
UnanimousCategories ==
    {c \in Categories :
        \E i \in DOMAIN emotion_labels :
            \A person \in AnnotatorSet : emotion_labels[i][person] = c}

\* C17: agreed_kappa is 1.0 when the unanimous rows cover at least two
\* categories, and NaN exactly when no row is unanimous.
C17_AgreedKappa ==
    pc \in {"category", "done", "raised"} =>
        /\ raised = "none"
        /\ Cardinality(UnanimousCategories) >= 2
              => separate_kappas.agreed_kappa = Fin(1, 1)
        /\ separate_kappas.agreed_kappa = NaN <=> UnanimousCategories = {}

-----------------------------------------------------------------------------
(* SpecKendall: calculate_kendall_w.py calculate_kendall_w_scipy           *)

MaxRanked == 3
RankedScores == {0, 1, 2}

\* data_matrix: MaxRanked samples at most; two raters who can rank three
\* samples without ties, or the three annotators' scores
RankedMatrices ==
    UNION {[1..m -> [1..2 -> RankedScores]] \cup [1..m -> [1..NAnnotators -> Scores]] :
              m \in 1..MaxRanked}

\* the scores themselves in place of their ranks
RawScores(xs) == [i \in DOMAIN xs |-> Fin(xs[i], 1)] \o <<>>

\* rankdata with method "ordinal": ties ranked by position
RankDataOrdinal(xs) ==
    [i \in DOMAIN xs |->
        Fin(Cardinality({j \in DOMAIN xs : xs[j] < xs[i]})
              + Cardinality({j \in DOMAIN xs : xs[j] = xs[i] /\ j <= i}), 1)] \o <<>>

\* scipy.stats.rankdata(xs) with the default method "average": ties share
\* the mean of the ranks they span
RankData(xs) ==
    [i \in DOMAIN xs |->
        LET less == Cardinality({j \in DOMAIN xs : xs[j] < xs[i]})
            equal == Cardinality({j \in DOMAIN xs : xs[j] = xs[i]})
        IN  Fin(2 * less + equal + 1, 2)] \o <<>>

\* ranks = np.apply_along_axis(stats.rankdata, 0, data_matrix), by column
RanksOf(mat) == [j \in 1..Len(mat[1]) |-> RankData(Column(mat, j))] \o <<>>

\* rank_sums = np.sum(ranks, axis=1)
RankSums(mat) ==
    LET ranks == RanksOf(mat)
    IN  [i \in DOMAIN mat |->
            SumFloats([j \in 1..Len(mat[1]) |-> ranks[j][i]])] \o <<>>

\* S = np.sum((rank_sums - mean_rank_sum) ** 2)
SumSquares(mat) ==
    LET rank_sums == RankSums(mat)
        mean_rank_sum == FDiv(SumFloats(rank_sums), Fin(Len(mat), 1))
    IN  SumFloats([i \in DOMAIN mat |->
            LET deviation == FSub(rank_sums[i], mean_rank_sum)
            IN  FMul(deviation, deviation)])

\* W = 12 * S / (n**2 * (m**3 - m))
KendallW(mat) ==
    LET m == Len(mat)
        n == Len(mat[1])
    IN  FDiv(FMul(Fin(12, 1), SumSquares(mat)), Fin(n * n * (m * m * m - m), 1))

\* chi_square = n * (m - 1) * W
ChiSquare(mat, W) == FMul(Fin(Len(mat[1]) * (Len(mat) - 1), 1), W)

\* the tuple calculate_kendall_w_scipy returns; p_value, a function of
\* chi_square only, is left out
KendallResult(mat) ==
    LET W == KendallW(mat)
    IN  [W |-> W, chi_square |-> ChiSquare(mat, W)]

InitKendall ==
    /\ pc = "call"
    /\ raised = "none"
    /\ w_matrix \in RankedMatrices
    /\ kendall = Unset
    /\ IdleRestKendall

\* calculate_kendall_w_scipy(data_matrix, data_type)
CalculateKendallW ==
    /\ pc = "call"
    /\ kendall' = KendallResult(w_matrix)
    /\ pc' = "done"
    /\ UNCHANGED <<raised, w_matrix, restKendall>>

NextKendall == CalculateKendallW

SpecKendall == InitKendall /\ [][NextKendall]_vars

\* C15: with identical rater columns over at least two samples W is 1,
\* also when the common column holds tied values.
C15_IdenticalColumnsGiveOne ==
    (/\ pc = "done"
     /\ Len(w_matrix) >= 2
     /\ \A i \in DOMAIN w_matrix : \A j \in DOMAIN w_matrix[i] :
           w_matrix[i][j] = w_matrix[i][1])
        => kendall.W = Fin(1, 1)

\* column j holds no tie, and two columns order the samples in reverse
Untied(mat, j) ==
    \A i1, i2 \in DOMAIN mat : i1 # i2 => mat[i1][j] # mat[i2][j]
Reversed(mat) ==
    \A i1, i2 \in DOMAIN mat : mat[i1][1] < mat[i2][1] <=> mat[i1][2] > mat[i2][2]

\* C16: for two raters whose untied rankings of at least two samples are
\* reverses of each other W is 0, and chi_square is n * (m - 1) * W.
C16_ReversedGiveZero ==
    (/\ pc = "done"
     /\ Len(w_matrix[1]) = 2
     /\ Len(w_matrix) >= 2
     /\ Untied(w_matrix, 1) /\ Untied(w_matrix, 2)
     /\ Reversed(w_matrix))
        => /\ kendall.W = Fin(0, 1)
           /\ IsFin(kendall.chi_square)
           /\ kendall.chi_square[2] * kendall.W[3] =
                 Len(w_matrix[1]) * (Len(w_matrix) - 1) * kendall.W[2]
                     * kendall.chi_square[3]

C16_Witness ==
    /\ pc = "done"
    /\ w_matrix = <<<<0, 2>>, <<1, 1>>, <<2, 0>>>>
    /\ kendall.W = Fin(0, 1)
    /\ kendall.chi_square = Fin(0, 1)

-----------------------------------------------------------------------------
(* SpecPvalues: calculate_correlation.py calculate_pvalues                 *)

\* df: one row per sample, one column per annotator
RatingTables == {m \in Matrices : Len(m[1]) = NAnnotators}

\* np.all(df.iloc[:, i] == df.iloc[0, i])
IsConstant(column) == \A t \in DOMAIN column : column[t] = column[1]

\* the p-value scipy derives from the squared correlation r2 of n pairs:
\* a number from 0 to 1
PValue(r2, n) == <<"pvalue", r2, n>>

\* _, p = stats.pearsonr(x, y): nan for a constant input, 1.0 for two
\* pairs, else the p-value of r
PearsonP(x, y) ==
    LET n == Len(x)
        sxy == n * SumInts([t \in 1..n |-> x[t] * y[t]]) - SumInts(x) * SumInts(y)
        sxx == n * SumInts([t \in 1..n |-> x[t] * x[t]]) - SumInts(x) * SumInts(x)
        syy == n * SumInts([t \in 1..n |-> y[t] * y[t]]) - SumInts(y) * SumInts(y)
    IN  IF IsConstant(x) \/ IsConstant(y) THEN NaN
        ELSE IF n = 2 THEN Fin(1, 1)
        ELSE PValue(Fin(sxy * sxy, sxx * syy), n)

\* the cell without the constant test: np.zeros leaves 0
PvalueCellZero(df, i, j) ==
    IF i # j
      THEN IF IsConstant(Column(df, i)) \/ IsConstant(Column(df, j))
             THEN Fin(0, 1)
             ELSE PearsonP(Column(df, i), Column(df, j))
      ELSE Fin(0, 1)

\* pvalues[i, j] of the double loop
PvalueCell(df, i, j) ==
    IF i # j
      THEN IF IsConstant(Column(df, i)) \/ IsConstant(Column(df, j))
             THEN NaN
             ELSE PearsonP(Column(df, i), Column(df, j))
      ELSE Fin(0, 1)

InitPvalues ==
    /\ pc = "call"
    /\ raised = "none"
    /\ rating_df \in RatingTables
    /\ pvalues = <<>>
    /\ IdleRestPvalues

\* calculate_pvalues(df, annotators)
CalculatePvalues ==
    /\ pc = "call"
    /\ pvalues' = [i \in 1..NAnnotators |->
                      [j \in 1..NAnnotators |-> PvalueCell(rating_df, i, j)]]
    /\ pc' = "done"
    /\ UNCHANGED <<raised, rating_df, restPvalues>>

NextPvalues == CalculatePvalues

SpecPvalues == InitPvalues /\ [][NextPvalues]_vars

\* some row differs from the first in annotator column j
ColumnVaries(j) == \E t \in DOMAIN rating_df : rating_df[t][j] # rating_df[1][j]

\* C19: calculate_pvalues does not raise; an entry off the diagonal is NaN
\* exactly when one of its two annotator columns is constant, and every
\* diagonal entry is 0.
C19_ConstantColumnsGiveNaN ==
    /\ raised = "none"
    /\ pc = "done" =>
          \A i, j \in 1..NAnnotators :
              IF i = j THEN pvalues[i][j] = Fin(0, 1)
              ELSE pvalues[i][j] = NaN <=> (~ColumnVaries(i) \/ ~ColumnVaries(j))

C19_Witness ==
    /\ pc = "done"
    /\ Len(rating_df) = MaxSamples
    /\ ~ColumnVaries(1) /\ ColumnVaries(2) /\ ColumnVaries(3)
    /\ pvalues[1][2] = NaN /\ pvalues[3][1] = NaN
    /\ pvalues[2][3] # NaN /\ pvalues[2][3] # Fin(1, 1)
    /\ pvalues[2][2] = Fin(0, 1)

-----------------------------------------------------------------------------
(* SpecPermute: calculate_cronbachs_alpha, prepare_data_for_kappa with     *)
(* calculate_kappa, and calculate_kendall_w_scipy, each applied to a table *)
(* and to the same table with two of its rows exchanged                    *)

\* the reorderings of n rows that exchange rows a and b (none for a = b);
\* every reordering is a succession of such exchanges
RowOrders(n) ==
    {[i \in 1..n |-> IF i = a THEN b ELSE IF i = b THEN a ELSE i] : a, b \in 1..n}
Reordered(rows, f) == [i \in DOMAIN rows |-> rows[f[i]]] \o <<>>

\* labels tables with at least one row
FilledLabelTables == LabelTables \ {<<>>}

InitPermute ==
    /\ pc = "call"
    /\ raised = "none"
    /\ statistic \in {"alpha", "fleiss", "kendall"}
    /\ sample_rows \in IF statistic = "fleiss" THEN FilledLabelTables ELSE RatingTables
    /\ permutation \in RowOrders(Len(sample_rows))
    /\ outcomes = Unset
    /\ IdleRestPermute

\* calculate_cronbachs_alpha(data_matrix) on both orders
AlphaOfBoth ==
    /\ pc = "call"
    /\ statistic = "alpha"
    /\ outcomes' = [given |-> AlphaOf(sample_rows),
                    reordered |-> AlphaOf(Reordered(sample_rows, permutation))]
    /\ pc' = "done"
    /\ UNCHANGED <<raised, statistic, sample_rows, permutation, restPermute>>

\* calculate_kappa(prepare_data_for_kappa(labels)[0]) on both orders
FleissOfBoth ==
    /\ pc = "call"
    /\ statistic = "fleiss"
    /\ outcomes' =
          [given |-> FleissKappaOf(RatingsMatrix(sample_rows)),
           reordered |->
               FleissKappaOf(RatingsMatrix(Reordered(sample_rows, permutation)))]
    /\ pc' = "done"
    /\ UNCHANGED <<raised, statistic, sample_rows, permutation, restPermute>>

\* calculate_kendall_w_scipy(data_matrix, data_type) on both orders
KendallOfBoth ==
    /\ pc = "call"
    /\ statistic = "kendall"
    /\ outcomes' = [given |-> KendallW(sample_rows),
                    reordered |-> KendallW(Reordered(sample_rows, permutation))]
    /\ pc' = "done"
    /\ UNCHANGED <<raised, statistic, sample_rows, permutation, restPermute>>

NextPermute ==
    \/ AlphaOfBoth
    \/ FleissOfBoth
    \/ KendallOfBoth

SpecPermute == InitPermute /\ [][NextPermute]_vars

\* C18: Cronbach's alpha, the Fleiss statistic of a labels table and
\* Kendall's W are the same for a table and for any reordering of its rows.
C18_RowOrderInvariant ==
    pc = "done" => outcomes.given = outcomes.reordered

C18_Witness ==
    /\ pc = "done"
    /\ statistic = "kendall"
    /\ Len(sample_rows) = MaxSamples
    /\ Reordered(sample_rows, permutation) # sample_rows
    /\ IsFin(outcomes.given)
    /\ outcomes.given # Fin(0, 1)
    /\ outcomes.given = outcomes.reordered

-----------------------------------------------------------------------------
(* SpecDiscrete: discrete_emotion_distribution.py                          *)
(* analyze_discrete_emotion_data, the counting of one item                 *)

MaxChars == 5

\* text as a sequence of characters
Chars == {" ", "n", "N", "u", "l"}
Texts == UNION {[1..n -> Chars] : n \in 0..MaxChars}

\* the items of a label file: discrete_emotion absent, null, a number or text
DiscreteItems ==
    {[audio_file |-> "s1.wav"]}
        \cup {[audio_file |-> "s1.wav", discrete_emotion |-> d] :
                 d \in {Null, Num(0)} \cup {Str(t) : t \in Texts}}

\* str.strip(): without the leading and trailing whitespace
RECURSIVE LStrip(_)
LStrip(t) == IF t # <<>> /\ Head(t) = " " THEN LStrip(Tail(t)) ELSE t
RECURSIVE RStrip(_)
RStrip(t) ==
    IF t # <<>> /\ t[Len(t)] = " " THEN RStrip(SubSeq(t, 1, Len(t) - 1)) ELSE t
Strip(t) == RStrip(LStrip(t))

\* str.lower()
LowerChar(ch) == IF ch = "N" THEN "n" ELSE ch
Lower(t) == [k \in DOMAIN t |-> LowerChar(t[k])]

\* the key "None" the missing values are counted under
NoneKey == Str(<<"N", "o", "n", "e">>)

\* the key an item is counted under
EmotionKey(item) ==
    LET discrete_emotion == Get(item, "discrete_emotion", Null)
    IN  IF discrete_emotion = Null THEN NoneKey
        ELSE IF discrete_emotion[1] = "str"
          THEN IF Strip(discrete_emotion[2]) = <<>>
                    \/ Lower(Strip(discrete_emotion[2])) = <<"n", "u", "l", "l">>
                 THEN NoneKey
                 ELSE Str(Strip(discrete_emotion[2]))
        ELSE discrete_emotion

InitDiscrete ==
    /\ pc = "item"
    /\ raised = "none"
    /\ emotion_item \in DiscreteItems
    /\ emotion_counts = <<>>
    /\ IdleRestDiscrete

\* data_stats[annotator]["discrete_emotion"][discrete_emotion] += 1
CountEmotion ==
    /\ pc = "item"
    /\ emotion_counts' = [key \in {EmotionKey(emotion_item)} |-> 1]
    /\ pc' = "done"
    /\ UNCHANGED <<raised, emotion_item, restDiscrete>>

NextDiscrete == CountEmotion

SpecDiscrete == InitDiscrete /\ [][NextDiscrete]_vars

\* the text of the item's discrete_emotion without surrounding blanks
TrimmedText ==
    LET t == emotion_item.discrete_emotion[2]
        first == {k \in DOMAIN t : t[k] # " "}
    IN  IF first = {} THEN <<>>
        ELSE SubSeq(t, CHOOSE k \in first : \A j \in first : k <= j,
                       CHOOSE k \in first : \A j \in first : k >= j)

\* C21: a text discrete_emotion is counted under the missing key exactly
\* when its trimmed text is empty or is "null" in this very case, else
\* under its trimmed text; a JSON null is counted under the missing key.
C21_TrimAndNullText ==
    (pc = "done" /\ "discrete_emotion" \in DOMAIN emotion_item) =>
        IF emotion_item.discrete_emotion = Null
          THEN DOMAIN emotion_counts = {NoneKey}
        ELSE IF emotion_item.discrete_emotion[1] = "str"
          THEN IF TrimmedText = <<>> \/ TrimmedText = <<"n", "u", "l", "l">>
                 THEN DOMAIN emotion_counts = {NoneKey}
                 ELSE DOMAIN emotion_counts = {Str(TrimmedText)}
        ELSE TRUE

\* an item whose text is "null" in another case has been counted
C21_OtherCaseCounted ==
    /\ pc = "done"
    /\ "discrete_emotion" \in DOMAIN emotion_item
    /\ emotion_item.discrete_emotion[1] = "str"
    /\ TrimmedText # <<"n", "u", "l", "l">>
    /\ Lower(TrimmedText) = <<"n", "u", "l", "l">>
    /\ DOMAIN emotion_counts = {NoneKey}

-----------------------------------------------------------------------------
(* SpecKappa, the bands of interpret_kappa                                 *)

\* x >= y on floats: false when either side is NaN
FAtLeast(x, y) == x # NaN /\ y # NaN /\ ~FLess(x, y)

\* the band a kappa lies in; no band holds NaN
InBand(k, band) ==
    CASE band = "Poor agreement (less than chance)" -> FLess(k, Fin(0, 1))
      [] band = "Slight agreement" ->
            FAtLeast(k, Fin(0, 1)) /\ FLess(k, Fin(1, 5))
      [] band = "Fair agreement" ->
            FAtLeast(k, Fin(1, 5)) /\ FLess(k, Fin(2, 5))
      [] band = "Moderate agreement" ->
            FAtLeast(k, Fin(2, 5)) /\ FLess(k, Fin(3, 5))
      [] band = "Substantial agreement" ->
            FAtLeast(k, Fin(3, 5)) /\ FLess(k, Fin(4, 5))
      [] band = "Almost perfect agreement" -> FAtLeast(k, Fin(4, 5))
      [] OTHER -> FALSE

\* main has written the bands
Interpreted == DOMAIN interpretation = {"kappa", "all_kappa", "agreed_kappa"}

\* C22: every kappa main interprets, a NaN agreed kappa included, is given
\* the band that contains it; "Almost perfect agreement" is given only to a
\* kappa >= 0.8.
C22_BandContainsKappa ==
    Interpreted =>
        /\ InBand(fleiss, interpretation.kappa)
        /\ InBand(separate_kappas.all_kappa, interpretation.all_kappa)
        /\ InBand(separate_kappas.agreed_kappa, interpretation.agreed_kappa)

\* the finite kappas are given their band
C22_FiniteKappaInBand ==
    Interpreted =>
        /\ IsFin(fleiss) => InBand(fleiss, interpretation.kappa)
        /\ IsFin(separate_kappas.all_kappa)
              => InBand(separate_kappas.all_kappa, interpretation.all_kappa)
        /\ IsFin(separate_kappas.agreed_kappa)
              => InBand(separate_kappas.agreed_kappa,
                        interpretation.agreed_kappa)

\* an agreed kappa that is NaN has been given a band
C22_NaNInterpreted ==
    /\ Interpreted
    /\ separate_kappas.agreed_kappa = NaN
    /\ IsFin(separate_kappas.all_kappa)

-----------------------------------------------------------------------------
(* SpecDisagree: emotion_score_disagreement_analyzer.py                    *)
(* analyze_disagreements, one iteration of the loop over common_files per  *)
(* step, then the report                                                   *)

\* the common files, in the sorted order find_common_files returns
DisagreeFiles == <<"r1_labels.json", "r2_labels.json">>

\* JSON numbers of this stage carry a rational: 0, 0.5 and 1
Half == Num(Fin(1, 2))
Zero == Num(Fin(0, 1))
One == Num(Fin(1, 1))

\* the records a file holds for the segment s1.wav, and one without audio_file
SegmentItems ==
    {[audio_file |-> "s1.wav", a_value |-> Zero, v_value |-> Zero],
     [audio_file |-> "s1.wav", a_value |-> Half, v_value |-> One],
     [audio_file |-> "s1.wav", a_value |-> One, v_value |-> Zero],
     [audio_file |-> "s1.wav", a_value |-> Null, v_value |-> Zero],
     [audio_file |-> "s1.wav", v_value |-> Half, username |-> Str("u1")],
     [username |-> Str("u1")]}

\* what json.load gives for a file: an error, a dict, or a list
JsonFiles ==
    {[kind |-> "error", items |-> <<>>], [kind |-> "dict", items |-> <<>>]}
        \cup {[kind |-> "list", items |-> <<>>]}
        \cup {[kind |-> "list", items |-> <<item>>] : item \in SegmentItems}

\* load_json_file returned a non-empty list: `data and isinstance(data, list)`
LoadsList(file) == file.kind = "list" /\ file.items # <<>>

\* data_dict: the records of a list under their audio_file, the last one kept
DataDict(items) ==
    LET keys == {items[k].audio_file :
                    k \in {j \in DOMAIN items : "audio_file" \in DOMAIN items[j]}}
    IN  [key \in keys |->
            items[CHOOSE k \in DOMAIN items :
                     /\ "audio_file" \in DOMAIN items[k]
                     /\ items[k].audio_file = key
                     /\ \A j \in DOMAIN items :
                           ("audio_file" \in DOMAIN items[j]
                              /\ items[j].audio_file = key) => j <= k]]

\* an iteration that skips only when the first annotator's data fails
SkipsOnFirst(files) == ~LoadsList(files["huangjun"])

\* the annotators loaded before the first one whose file fails (break)
LoadedAnnotators(files) ==
    {annotators[k] : k \in {j \in DOMAIN annotators :
        \A h \in 1..j : LoadsList(files[annotators[h]])}}

AnnotatorData(files) ==
    [person \in LoadedAnnotators(files) |-> DataDict(files[person].items)]

\* common_wav_segments
CommonWavSegments(adata) ==
    IF ~(AnnotatorSet \subseteq DOMAIN adata) THEN {} ELSE
    {seg \in DOMAIN adata["huangjun"] :
        \A person \in {"liuyang", "yuhangbin"} : seg \in DOMAIN adata[person]}

\* float(x): a number converts, None raises TypeError
FloatRaises(x) == x = Null
ToFloat(x) == x[2]

\* the three floats of a field, in the order of annotators
FieldValues(adata, seg, field) ==
    [k \in DOMAIN annotators |->
        ToFloat(Get(adata[annotators[k]][seg], field, Zero))]

FMaxOf(xs) == CHOOSE x \in {xs[k] : k \in DOMAIN xs} :
                 \A k \in DOMAIN xs : ~FLess(x, xs[k])
FMinOf(xs) == CHOOSE x \in {xs[k] : k \in DOMAIN xs} :
                 \A k \in DOMAIN xs : ~FLess(xs[k], x)
MaxDifference(xs) == FSub(FMaxOf(xs), FMinOf(xs))

\* a_max - a_min > 0.5
Exceeds(xs) == FLess(Fin(1, 2), MaxDifference(xs))

\* the row appended for a segment (round(.., 2) leaves 0, 0.5 and 1 as they are)
Disagreement(fname, adata, seg, field) ==
    LET xs == FieldValues(adata, seg, field)
    IN  [filename |-> fname, wav_segment |-> seg, field |-> field,
         huangjun |-> xs[1], liuyang |-> xs[2], yuhangbin |-> xs[3],
         max_difference |-> MaxDifference(xs),
         username |-> Get(adata["huangjun"][seg], "username", Str("")),
         patient_status |->
             Get(adata["huangjun"][seg], "patient_status", Str("")),
         emotion_type |-> Get(adata["huangjun"][seg], "emotion_type", Str(""))]

\* the check after the loop over annotators: len(annotator_data) != 3
Skips(files) == Cardinality(DOMAIN AnnotatorData(files)) # 3

InitDisagree ==
    /\ pc = "files"
    /\ raised = "none"
    /\ common_json = DisagreeFiles
    /\ json_name = NoFile
    /\ annotator_data = <<>>
    /\ json_files = <<>>
    /\ a_value_disagreements = <<>>
    /\ v_value_disagreements = <<>>
    /\ a_value_count = 0
    /\ v_value_count = 0
    /\ total_samples = 0
    /\ IdleRestDisagree

\* an iteration that ends at `continue`: some annotator's data did not load
SkipFile ==
    /\ pc = "files"
    /\ common_json # <<>>
    /\ \E files \in [AnnotatorSet -> JsonFiles] :
          /\ Skips(files)
          /\ json_files' = files
          /\ annotator_data' = AnnotatorData(files)
    /\ json_name' = Head(common_json)
    /\ common_json' = Tail(common_json)
    /\ UNCHANGED <<pc, raised, a_value_disagreements, v_value_disagreements,
                   a_value_count, v_value_count, total_samples, restDisagree>>

\* an iteration over a file all three annotators' data loaded for (the files
\* of this stage hold at most one segment)
CheckFile ==
    /\ pc = "files"
    /\ common_json # <<>>
    /\ \E files \in [AnnotatorSet -> JsonFiles] :
          /\ ~Skips(files)
          /\ json_files' = files
          /\ annotator_data' = AnnotatorData(files)
    /\ json_name' = Head(common_json)
    /\ common_json' = Tail(common_json)
    /\ LET adata == annotator_data'
           fname == Head(common_json)
           segs == CommonWavSegments(adata)
       IN  IF ~(AnnotatorSet \subseteq DOMAIN adata)
             THEN \* annotator_data["huangjun"] and annotator_data[annotator]
                  /\ raised' = "KeyError"
                  /\ pc' = "raised"
                  /\ UNCHANGED <<a_value_disagreements, v_value_disagreements,
                                 a_value_count, v_value_count, total_samples>>
           ELSE IF segs = {}
             THEN UNCHANGED <<pc, raised, a_value_disagreements,
                              v_value_disagreements, a_value_count,
                              v_value_count, total_samples>>
             ELSE LET seg == CHOOSE x \in segs : TRUE
                      fails == \E person \in AnnotatorSet :
                                  \E field \in {"a_value", "v_value"} :
                                     FloatRaises(Get(adata[person][seg],
                                                     field, Zero))
                  IN  /\ total_samples' = total_samples + 1
                      /\ IF fails
                           THEN /\ raised' = "TypeError"
                                /\ pc' = "raised"
                                /\ UNCHANGED <<a_value_disagreements,
                                               v_value_disagreements,
                                               a_value_count, v_value_count>>
                           ELSE /\ UNCHANGED <<pc, raised>>
                                /\ IF Exceeds(FieldValues(adata, seg, "a_value"))
                                     THEN /\ a_value_count' = a_value_count + 1
                                          /\ a_value_disagreements' =
                                               Append(a_value_disagreements,
                                                 Disagreement(fname, adata, seg,
                                                              "a_value"))
                                     ELSE UNCHANGED <<a_value_count,
                                                      a_value_disagreements>>
                                /\ IF Exceeds(FieldValues(adata, seg, "v_value"))
                                     THEN /\ v_value_count' = v_value_count + 1
                                          /\ v_value_disagreements' =
                                               Append(v_value_disagreements,
                                                 Disagreement(fname, adata, seg,
                                                              "v_value"))
                                     ELSE UNCHANGED <<v_value_count,
                                                      v_value_disagreements>>
    /\ UNCHANGED restDisagree

\* the results: the percentages divide by total_samples, and the summary
\* asks pd, which the script does not import, for the time
ReportDisagreements ==
    /\ pc = "files"
    /\ common_json = <<>>
    /\ raised' = IF total_samples = 0 THEN "ZeroDivisionError" ELSE "NameError"
    /\ pc' = "raised"
    /\ UNCHANGED <<common_json, json_name, annotator_data, json_files,
                   a_value_disagreements, v_value_disagreements,
                   a_value_count, v_value_count, total_samples, restDisagree>>

NextDisagree ==
    \/ SkipFile
    \/ CheckFile
    \/ ReportDisagreements

SpecDisagree == InitDisagree /\ [][NextDisagree]_vars

\* the last iteration loaded the data of all three annotators
AllLoaded == json_name # NoFile /\ DOMAIN annotator_data = AnnotatorSet

\* the three values of a field are numbers (an absent one counts as 0)
Numeric(seg, field) ==
    \A person \in AnnotatorSet :
        Get(annotator_data[person][seg], field, Zero) # Null

\* the rows a list holds for a segment of the last file
RowsOf(list, seg) ==
    {k \in DOMAIN list :
        list[k].filename = json_name /\ list[k].wav_segment = seg}

\* C23: a common sample is in a_value_disagreements (v_value_disagreements)
\* exactly when the largest and the smallest of its three a_value (v_value)
\* differ by more than 0.5; the counts are the lengths of the lists, and
\* neither exceeds total_samples.
C23_AppendedIffSpreadExceeds ==
    /\ AllLoaded =>
          \A seg \in CommonWavSegments(annotator_data) :
             /\ Numeric(seg, "a_value") =>
                   (RowsOf(a_value_disagreements, seg) # {}
                      <=> Exceeds(FieldValues(annotator_data, seg, "a_value")))
             /\ Numeric(seg, "v_value") =>
                   (RowsOf(v_value_disagreements, seg) # {}
                      <=> Exceeds(FieldValues(annotator_data, seg, "v_value")))
    /\ json_name # NoFile =>
          /\ a_value_count = Len(a_value_disagreements)
          /\ v_value_count = Len(v_value_disagreements)
          /\ a_value_count <= total_samples
          /\ v_value_count <= total_samples

\* the same for the samples none of whose six values is null
C23_NumericSamples ==
    /\ AllLoaded =>
          \A seg \in CommonWavSegments(annotator_data) :
             Numeric(seg, "a_value") /\ Numeric(seg, "v_value") =>
                /\ RowsOf(a_value_disagreements, seg) # {}
                      <=> Exceeds(FieldValues(annotator_data, seg, "a_value"))
                /\ RowsOf(v_value_disagreements, seg) # {}
                      <=> Exceeds(FieldValues(annotator_data, seg, "v_value"))
    /\ json_name # NoFile =>
          /\ a_value_count = Len(a_value_disagreements)
          /\ v_value_count = Len(v_value_disagreements)
          /\ a_value_count <= total_samples
          /\ v_value_count <= total_samples

\* a sample whose v_value differ by more than 0.5 has been met next to a
\* null a_value
C23_NullBesideSpread ==
    /\ AllLoaded
    /\ raised = "TypeError"
    /\ \E seg \in CommonWavSegments(annotator_data) :
          /\ Numeric(seg, "v_value")
          /\ Exceeds(FieldValues(annotator_data, seg, "v_value"))

\* an annotator's copy of the last file failed to load: a load error, JSON
\* that is not a list, or an empty list
FailedToLoad ==
    /\ json_name # NoFile
    /\ \E person \in AnnotatorSet :
          \/ json_files[person].kind \in {"error", "dict"}
          \/ json_files[person].items = <<>>

\* C24: when the copy of any annotator fails to load, the file is skipped:
\* the step adds nothing to total_samples or to the two lists, and the loop
\* goes on to the next common file.
C24_FailedFileSkipped ==
    [][FailedToLoad' /\ json_name' # json_name =>
          /\ total_samples' = total_samples
          /\ a_value_disagreements' = a_value_disagreements
          /\ v_value_disagreements' = v_value_disagreements
          /\ a_value_count' = a_value_count
          /\ v_value_count' = v_value_count
          /\ common_json' = Tail(common_json)
          /\ pc' = "files" /\ raised' = "none"]_vars

\* the first file was skipped for a failed load and the second one counted
C24_Witness ==
    /\ FailedToLoad
    /\ json_name = DisagreeFiles[1]
    /\ common_json = Tail(DisagreeFiles)
    /\ \E person \in AnnotatorSet : LoadsList(json_files[person])
    /\ pc = "files"

-----------------------------------------------------------------------------
(* SpecKappa, the count matrix of prepare_data_for_kappa                   *)

\* the distinct labels of the table in sorted order
SortedLabels ==
    SelectSeq(CategoryOrder,
              LAMBDA c : \E i \in DOMAIN emotion_labels :
                            \E person \in AnnotatorSet :
                               emotion_labels[i][person] = c)

\* main holds the matrix and the mapping of prepare_data_for_kappa
Prepared == pc \in {"kappa", "separate", "category", "report"} /\ raised = "none"

\* C25: cell (i, c) of the count matrix is the number of annotators whose
\* label of sample i is category c, every row sums to 3, and the column of
\* a category is its position in the sorted list of the distinct labels.
C25_CountMatrix ==
    Prepared =>
        /\ DOMAIN emotion_mapping = {SortedLabels[k] : k \in DOMAIN SortedLabels}
        /\ \A k \in DOMAIN SortedLabels : emotion_mapping[SortedLabels[k]] = k - 1
        /\ DOMAIN ratings_matrix = DOMAIN emotion_labels
        /\ \A i \in DOMAIN ratings_matrix :
              /\ DOMAIN ratings_matrix[i] = DOMAIN SortedLabels
              /\ \A k \in DOMAIN SortedLabels :
                    ratings_matrix[i][k] =
                       Cardinality({person \in AnnotatorSet :
                           emotion_labels[i][person] = SortedLabels[k]})
              /\ SumInts(ratings_matrix[i]) = 3

\* a table of two categories with a split row
C25_Witness ==
    /\ Prepared
    /\ Len(SortedLabels) = 2
    /\ \E i \in DOMAIN ratings_matrix : ratings_matrix[i] = <<2, 1>>
    /\ \E i \in DOMAIN ratings_matrix : ratings_matrix[i] = <<0, 3>>

-----------------------------------------------------------------------------
(* SpecPartition: extract_inconsistent_data.py and count_consistent_data.py *)
(* find_inconsistent_data and count_consistent_data on the same all_data   *)
(* of one file                                                             *)

\* the records of this stage: a sample id with numeric v_value and a_value
PairItems ==
    {[audio_file |-> id, v_value |-> Num(va[1]), a_value |-> Num(va[2])] :
        id \in SampleIds, va \in {<<0, 0>>, <<1, 0>>, <<0, 1>>}}

\* file_data[annotator]: no record, one record, or one of each sample
PairLists ==
    {<<>>} \cup {<<x>> : x \in PairItems}
        \cup {<<x, y>> : x \in {z \in PairItems : z.audio_file = "s1.wav"},
                         y \in {z \in PairItems : z.audio_file = "s2.wav"}}

\* the orders a loop may iterate a set in
Orders(S) ==
    {order \in [1..Cardinality(S) -> S] :
        \A j, k \in 1..Cardinality(S) : order[j] = order[k] => j = k}

\* processed_data: the lists as dicts keyed by audio_file
DictsOf(lists) ==
    [a \in AnnotatorSet |-> DictFromList(lists[a])]

\* processed_data[annotator][audio_file] raises KeyError for some sample
LookupRaises(dicts, ids) ==
    \E id \in ids : \E a \in AnnotatorSet : id \notin DOMAIN dicts[a]

\* v_values / a_values of a sample, in the order of annotators
ValuesOf(dicts, id, field) ==
    [k \in 1..NAnnotators |-> Get(dicts[annotators[k]][id], field, Num(0))]

\* a range test that asks for a difference of more than 1
RangeAboveOne(values) == Range(values) > 1

\* v_range = max(v_values) - min(v_values); v_inconsistent = v_range > 0
RangePositive(values) == Range(values) > 0

\* the item find_inconsistent_data appends for a sample, or none
InconsistentItems(dicts, id) ==
    LET v_inconsistent == RangePositive(ValuesOf(dicts, id, "v_value"))
        a_inconsistent == RangePositive(ValuesOf(dicts, id, "a_value"))
    IN  IF v_inconsistent \/ a_inconsistent
          THEN <<[source_file |-> "r1_labels.json",
                  audio_file |-> id,
                  inconsistency_type |->
                      (IF v_inconsistent THEN <<"valence">> ELSE <<>>)
                          \o (IF a_inconsistent THEN <<"arousal">> ELSE <<>>),
                  v_values |-> ValuesOf(dicts, id, "v_value"),
                  a_values |-> ValuesOf(dicts, id, "a_value")]>>
          ELSE <<>>

\* the item count_consistent_data appends for a sample, or none
ConsistentItems(dicts, id) ==
    IF AllSame(ValuesOf(dicts, id, "v_value"))
          /\ AllSame(ValuesOf(dicts, id, "a_value"))
      THEN <<[source_file |-> "r1_labels.json",
              audio_file |-> id,
              v_value |-> ValuesOf(dicts, id, "v_value")[1],
              a_value |-> ValuesOf(dicts, id, "a_value")[1],
              v_values |-> ValuesOf(dicts, id, "v_value"),
              a_values |-> ValuesOf(dicts, id, "a_value")]>>
      ELSE <<>>

RECURSIVE Collect(_, _, _)
Collect(Items(_, _), dicts, order) ==
    IF order = <<>> THEN <<>>
    ELSE Items(dicts, Head(order)) \o Collect(Items, dicts, Tail(order))

\* the number of samples of a set that a test holds for
HowMany(ids, Test(_)) == Cardinality({id \in ids : Test(id)})

InitPartition ==
    /\ pc = "find"
    /\ raised = "none"
    /\ part_data \in [AnnotatorSet -> PairLists]
    /\ inconsistent_found = <<>>
    /\ found_total = 0
    /\ consistency = Unset
    /\ IdleRestPartition

\* inconsistent_data = find_inconsistent_data(all_data, annotators)
FindInconsistentData ==
    /\ pc = "find"
    /\ LET dicts == DictsOf(part_data)
           ids == CommonAudioFiles(dicts)
       IN  /\ found_total' = Cardinality(ids)
           /\ IF LookupRaises(dicts, ids)
                THEN /\ raised' = "KeyError"
                     /\ pc' = "raised"
                     /\ UNCHANGED inconsistent_found
                ELSE /\ \E order \in Orders(ids) :
                           inconsistent_found' =
                               Collect(InconsistentItems, dicts, order)
                     /\ pc' = "count"
                     /\ UNCHANGED raised
    /\ UNCHANGED <<part_data, consistency, restPartition>>

\* result = count_consistent_data(all_data, annotators)
CountConsistentData ==
    /\ pc = "count"
    /\ LET dicts == DictsOf(part_data)
           ids == CommonAudioFiles(dicts)
           v_count == HowMany(ids,
                          LAMBDA id : AllSame(ValuesOf(dicts, id, "v_value")))
           a_count == HowMany(ids,
                          LAMBDA id : AllSame(ValuesOf(dicts, id, "a_value")))
           both == HowMany(ids,
                          LAMBDA id : ConsistentItems(dicts, id) # <<>>)
       IN  IF LookupRaises(dicts, ids)
             THEN /\ raised' = "KeyError"
                  /\ pc' = "raised"
                  /\ UNCHANGED consistency
             ELSE /\ \E order \in Orders(ids) :
                        consistency' =
                            [total_samples |-> Cardinality(ids),
                             v_consistent_count |-> v_count,
                             a_consistent_count |-> a_count,
                             both_consistent_count |-> both,
                             v_only_consistent |-> v_count - both,
                             a_only_consistent |-> a_count - both,
                             consistent_data |->
                                 Collect(ConsistentItems, dicts, order)]
                  /\ pc' = "done"
                  /\ UNCHANGED raised
    /\ UNCHANGED <<part_data, inconsistent_found, found_total, restPartition>>

NextPartition ==
    \/ FindInconsistentData
    \/ CountConsistentData

SpecPartition == InitPartition /\ [][NextPartition]_vars

\* both functions have returned
BothReturned == pc = "done" /\ DOMAIN consistency # {1}

\* the values the three annotators gave a sample differ
Differ(id, field) ==
    \E a, b \in AnnotatorSet :
        Get(DictFromList(part_data[a])[id], field, Num(0))
            # Get(DictFromList(part_data[b])[id], field, Num(0))

\* whether a sequence holds a value
Lists(xs, x) == \E k \in DOMAIN xs : xs[k] = x

\* C26: on the same all_data with numeric values the two functions divide
\* the common samples between them: the number of inconsistent items plus
\* both_consistent_count is total_samples, and an item's inconsistency_type
\* lists "valence" exactly when the v_value differ and "arousal" exactly
\* when the a_value differ.
C26_Partition ==
    BothReturned =>
        /\ Len(inconsistent_found) + consistency.both_consistent_count
              = consistency.total_samples
        /\ found_total = consistency.total_samples
        /\ \A k \in DOMAIN inconsistent_found :
              LET item == inconsistent_found[k]
              IN  /\ Lists(item.inconsistency_type, "valence")
                        <=> Differ(item.audio_file, "v_value")
                  /\ Lists(item.inconsistency_type, "arousal")
                        <=> Differ(item.audio_file, "a_value")

\* two common samples, one inconsistent in valence only and one consistent
C26_Witness ==
    /\ BothReturned
    /\ consistency.total_samples = 2
    /\ consistency.both_consistent_count = 1
    /\ \E k \in DOMAIN inconsistent_found :
          inconsistent_found[k].inconsistency_type = <<"valence">>

\* C27: both_consistent_count <= v_consistent_count <= total_samples and
\* both_consistent_count <= a_consistent_count <= total_samples, the two
\* "only" counts are not negative, consistent_data has
\* both_consistent_count items, and in each of them the three v_value are
\* equal and the three a_value are equal.
C27_CounterOrder ==
    BothReturned =>
        /\ consistency.both_consistent_count <= consistency.v_consistent_count
        /\ consistency.v_consistent_count <= consistency.total_samples
        /\ consistency.both_consistent_count <= consistency.a_consistent_count
        /\ consistency.a_consistent_count <= consistency.total_samples
        /\ consistency.v_only_consistent >= 0
        /\ consistency.a_only_consistent >= 0
        /\ Len(consistency.consistent_data) = consistency.both_consistent_count
        /\ \A k \in DOMAIN consistency.consistent_data :
              LET item == consistency.consistent_data[k]
              IN  /\ ~Differ(item.audio_file, "v_value")
                  /\ ~Differ(item.audio_file, "a_value")
                  /\ \A j \in 1..NAnnotators :
                        /\ item.v_values[j] = item.v_value
                        /\ item.a_values[j] = item.a_value

\* a sample consistent in both, and one consistent in arousal only
C27_Witness ==
    /\ BothReturned
    /\ consistency.total_samples = 2
    /\ consistency.both_consistent_count = 1
    /\ consistency.a_only_consistent = 1
    /\ consistency.v_only_consistent = 0

-----------------------------------------------------------------------------
(* SpecExtract: extract_emotion_audio.py process_json_v_value on one label *)
(* file that parses (process_json_a_value and                              *)
(* process_json_discrete_emotion have the same loop), one item per step    *)

MaxAnnotations == 2

\* the items of the label file: audio_file empty or a name, v_value a
\* number or null
ExtractItems ==
    {[audio_file |-> Str(name), v_value |-> v] :
        name \in {"", "s1.wav", "s2.wav"}, v \in {Num(0), Num(1), Null}}
ExtractLists == UNION {[1..n -> ExtractItems] : n \in 0..MaxAnnotations}

\* target_path: the directory of the v_value and the name of the audio file
TargetPath(item) == <<item.v_value, item.audio_file>>
TargetPaths ==
    {<<Num(v), Str(name)>> : v \in {0, 1}, name \in {"s1.wav", "s2.wav"}}

\* `not audio_file or v_value is None`, then the isinstance test
Invalid(item) ==
    \/ Get(item, "audio_file", Null) \in {Null, Str("")}
    \/ Get(item, "v_value", Null) = Null
    \/ Get(item, "v_value", Null)[1] # "num"

\* os.path.exists(source_path)
SourceExists(item, wavs) == item.audio_file[2] \in wavs

\* `return False` when the target exists
AfterExisting == "done"

InitExtract ==
    /\ pc = "items"
    /\ raised = "none"
    /\ label_items \in ExtractLists
    /\ wav_files \in SUBSET {"s1.wav", "s2.wav"}
    /\ extract_wav \in [TargetPaths -> {"absent", "before"}]
    /\ item_i = 0
    /\ IdleRestExtract

\* one iteration of `for item in annotations`
ProcessItem ==
    /\ pc = "items"
    /\ item_i < Len(label_items)
    /\ item_i' = item_i + 1
    /\ LET item == label_items[item_i + 1]
       IN  IF Invalid(item) \/ ~SourceExists(item, wav_files)
             THEN UNCHANGED <<pc, extract_wav>>
           ELSE IF extract_wav[TargetPath(item)] # "absent"
             THEN /\ pc' = AfterExisting
                  /\ UNCHANGED extract_wav
           ELSE /\ extract_wav' =
                      [extract_wav EXCEPT ![TargetPath(item)] = "copied"]
                /\ UNCHANGED pc
    /\ UNCHANGED <<raised, label_items, wav_files, restExtract>>

\* the loop has taken every item
ReturnNone ==
    /\ pc = "items"
    /\ item_i = Len(label_items)
    /\ pc' = "done"
    /\ UNCHANGED <<raised, label_items, wav_files, extract_wav, item_i,
                   restExtract>>

NextExtract ==
    \/ ProcessItem
    \/ ReturnNone

SpecExtract == InitExtract /\ [][NextExtract]_vars

\* the items that name an audio file, carry a number and have a source
Copyable(k) ==
    /\ ~Invalid(label_items[k])
    /\ SourceExists(label_items[k], wav_files)

\* C28: when process_json_v_value has finished with a label file, every item
\* with a non-empty audio_file, a valid value and an existing source audio
\* has a file at its target path, whatever the output directory held before
\* and also when an audio_file occurs twice; no file that was there before
\* has been overwritten.
C28_EveryCopyableItemHasFile ==
    pc = "done" /\ DOMAIN extract_wav = TargetPaths =>
        \A k \in DOMAIN label_items :
           Copyable(k) => extract_wav[TargetPath(label_items[k])] # "absent"

\* no step replaces a file that was in the output directory before
C28_NeverOverwritten ==
    [][\A path \in TargetPaths :
          (DOMAIN extract_wav = TargetPaths /\ extract_wav[path] = "before")
             => extract_wav'[path] = "before"]_vars

\* the function has returned at an existing target with an item left
C28_ReturnedEarly ==
    /\ pc = "done"
    /\ DOMAIN extract_wav = TargetPaths
    /\ item_i < Len(label_items)

-----------------------------------------------------------------------------
(* SpecFilter: processing_json.py process_common_json_files, one           *)
(* iteration over a common file of a subfolder (with its call of           *)
(* filter_patient_data) per step                                           *)

MaxInputs == 2
MaxPatients == 2

\* the records of an input file, and one that is no dict
PatientItems ==
    {[audio_file |-> "s1.wav", patient_status |-> Str("patient")],
     [audio_file |-> "s2.wav", patient_status |-> Str("patient")],
     [audio_file |-> "s3.wav", patient_status |-> Str("control")],
     [audio_file |-> "s4.wav", patient_status |-> Null],
     [audio_file |-> "s5.wav"],
     NotADict}

\* what input_path holds: nothing, text that does not parse, a dict of two
\* keys, or a list of records
InputFiles ==
    {[kind |-> "missing", items |-> <<>>], [kind |-> "malformed", items |-> <<>>],
     [kind |-> "dict", items |-> <<>>]}
        \cup {[kind |-> "list", items |-> l] :
                 l \in UNION {[1..n -> PatientItems] : n \in 0..MaxPatients}}

\* no file at output_path
NotWritten == [kind |-> "missing", items |-> <<>>]

\* a filter that keeps every record whose status is not "control"
KeepsAllButControl(record) ==
    Get(record, "patient_status", Null) # Str("control")

\* record.get("patient_status") == "patient"
KeepsRecord(record) == Get(record, "patient_status", Null) = Str("patient")

\* filtered_data = [record for record in data if ...]
RECURSIVE FilteredData(_)
FilteredData(records) ==
    IF records = <<>> THEN <<>>
    ELSE (IF KeepsRecord(Head(records)) THEN <<Head(records)>> ELSE <<>>)
            \o FilteredData(Tail(records))

\* the try block raises: json.load fails, or a member of data has no get
\* (a key of a dict, a record that is no dict)
FilterRaises(file) ==
    \/ file.kind \in {"malformed", "dict"}
    \/ \E k \in DOMAIN file.items : ~IsDict(file.items[k])

\* len(original_data), 0 when the first json.load raises
RecordsBefore(file) ==
    CASE file.kind = "malformed" -> 0
      [] file.kind = "dict" -> 2
      [] OTHER -> Len(file.items)

ZeroTotals ==
    [total_files |-> 0, total_records_before |-> 0, total_records_after |-> 0]

InitFilter ==
    /\ pc = "inputs"
    /\ raised = "none"
    /\ inputs_left = MaxInputs
    /\ input_file = NotWritten
    /\ output_file = NotWritten
    /\ records_after = Unset
    /\ totals = ZeroTotals
    /\ IdleRestFilter

\* an iteration whose input_path does not exist
WarnMissing ==
    /\ pc = "inputs"
    /\ inputs_left > 0
    /\ inputs_left' = inputs_left - 1
    /\ input_file' = NotWritten
    /\ output_file' = NotWritten
    /\ records_after' = Unset
    /\ UNCHANGED <<pc, raised, totals, restFilter>>

\* an iteration whose input_path exists: records_before, then
\* filter_patient_data(input_path, output_path)
FilterFile ==
    /\ pc = "inputs"
    /\ inputs_left > 0
    /\ inputs_left' = inputs_left - 1
    /\ \E file \in InputFiles \ {NotWritten} :
          /\ input_file' = file
          /\ IF FilterRaises(file)
               THEN /\ output_file' = NotWritten
                    /\ records_after' = 0
               ELSE /\ output_file' =
                          [kind |-> "list", items |-> FilteredData(file.items)]
                    /\ records_after' = Len(FilteredData(file.items))
          /\ totals' =
                [total_files |-> totals.total_files + 1,
                 total_records_before |->
                     totals.total_records_before + RecordsBefore(file),
                 total_records_after |->
                     totals.total_records_after + records_after']
    /\ UNCHANGED <<pc, raised, restFilter>>

\* the statistics after the loops
PrintTotals ==
    /\ pc = "inputs"
    /\ inputs_left = 0
    /\ pc' = "done"
    /\ UNCHANGED <<raised, inputs_left, input_file, output_file,
                   records_after, totals, restFilter>>

NextFilter ==
    \/ WarnMissing
    \/ FilterFile
    \/ PrintTotals

SpecFilter == InitFilter /\ [][NextFilter]_vars

\* the last iteration called filter_patient_data
Filtered == DOMAIN totals = DOMAIN ZeroTotals /\ input_file.kind # "missing"

\* the positions of the input list whose patient_status is "patient"
PatientPositions ==
    {k \in DOMAIN input_file.items :
        /\ "patient_status" \in DOMAIN input_file.items[k]
        /\ input_file.items[k].patient_status = Str("patient")}

\* a sequence is the members of another at a set of positions, in order
IsSelection(out, in, positions) ==
    /\ Len(out) = Cardinality(positions)
    /\ \A k \in DOMAIN out :
          \E p \in positions :
             /\ out[k] = in[p]
             /\ Cardinality({q \in positions : q < p}) = k - 1

-----------------------------------------------------------------------------
(* SpecCommon: get_common_files (processing_json.py) and find_common_files *)
(* (discrete_emotion_distribution.py, emotion_annotation_distribution.py,  *)
(* emotion_score_disagreement_analyzer.py) over the same folders           *)

\* file names <<stem, suffix>> of a folder
FolderNames ==
    {<<1, "_labels.json">>, <<2, "_labels.json">>, <<1, ".json">>, <<1, ".txt">>}

\* a folder: absent, or a directory with its file names
Folders ==
    {[exists |-> FALSE, files |-> {}]}
        \cup {[exists |-> TRUE, files |-> fs] : fs \in SUBSET FolderNames}

\* subfolder.glob("*.json") and f.endswith(".json")
EndsWithJson(f) == f[2] \in {"_labels.json", ".json"}
JsonFilesOf(folder) == {f \in folder.files : EndsWithJson(f)}

\* annotator_files[annotator]: the "_labels.json" names, set() when the
\* path does not exist
LabelFilesOf(folder) ==
    IF folder.exists THEN {f \in folder.files : EndsWithLabels(f)} ELSE {}
JsonFilesOrNone(folder) == IF folder.exists THEN JsonFilesOf(folder) ELSE {}

\* an intersection that starts over from the folder when it is empty
StartsOverWhenEmpty(acc, folder_files) ==
    IF acc = {} THEN folder_files ELSE acc \cap folder_files

\* common_files = common_files.intersection(folder_files)
IntersectWith(acc, folder_files) == acc \cap folder_files

InitCommon ==
    /\ pc = "list"
    /\ raised = "none"
    /\ folders \in [AnnotatorSet -> Folders]
    /\ subfolders_left = <<>>
    /\ json_common = {}
    /\ common_found = {}
    /\ common_json_found = {}
    /\ IdleRestCommon

\* get_common_files: subfolders in the order iterdir yields them; none
\* returns set(), else the first one's names are the baseline
ListSubfolders ==
    /\ pc = "list"
    /\ \E order \in Orders({a \in AnnotatorSet : folders[a].exists}) :
          IF order = <<>>
            THEN /\ pc' = "find"
                 /\ UNCHANGED <<subfolders_left, json_common>>
            ELSE /\ json_common' = JsonFilesOf(folders[order[1]])
                 /\ subfolders_left' = Tail(order)
                 /\ pc' = "fold"
    /\ UNCHANGED <<raised, folders, common_found, common_json_found,
                   restCommon>>

\* get_common_files: for subfolder in subfolders[1:]
IntersectSubfolder ==
    /\ pc = "fold"
    /\ subfolders_left # <<>>
    /\ json_common' =
          IntersectWith(json_common, JsonFilesOf(folders[Head(subfolders_left)]))
    /\ subfolders_left' = Tail(subfolders_left)
    /\ UNCHANGED <<pc, raised, folders, common_found, common_json_found,
                   restCommon>>

\* get_common_files: return common_files
ReturnCommon ==
    /\ pc = "fold"
    /\ subfolders_left = <<>>
    /\ pc' = "find"
    /\ UNCHANGED <<raised, folders, subfolders_left, json_common,
                   common_found, common_json_found, restCommon>>

\* find_common_files: set.intersection(*annotator_files.values())
FindCommonFiles ==
    /\ pc = "find"
    /\ common_found' = Intersection({LabelFilesOf(folders[a]) : a \in AnnotatorSet})
    /\ pc' = "analyze"
    /\ UNCHANGED <<raised, folders, subfolders_left, json_common,
                   common_json_found, restCommon>>

\* find_common_files of the analyzer: the three sets joined with &, sorted
FindCommonJson ==
    /\ pc = "analyze"
    /\ common_json_found' =
          (JsonFilesOrNone(folders["huangjun"])
              \cap JsonFilesOrNone(folders["liuyang"]))
                 \cap JsonFilesOrNone(folders["yuhangbin"])
    /\ pc' = "done"
    /\ UNCHANGED <<raised, folders, subfolders_left, json_common,
                   common_found, restCommon>>

NextCommon ==
    \/ ListSubfolders
    \/ IntersectSubfolder
    \/ ReturnCommon
    \/ FindCommonFiles
    \/ FindCommonJson

SpecCommon == InitCommon /\ [][NextCommon]_vars

\* the names with a suffix that every one of a set of folders holds
InAll(people, suffixes) ==
    {f \in FolderNames :
        /\ f[2] \in suffixes
        /\ \A a \in people : folders[a].exists /\ f \in folders[a].files}

\* the subfolders get_common_files found
Subfolders == {a \in AnnotatorSet : folders[a].exists}

=============================================================================
